---- MODULE Spec2Model ----
(***************************************************************************)
(* A model of the ai-documenter agent runtime (classes/agent.ts), its tool *)
(* registry (tools/*.ts, helpers/validation.ts) and the file access layer  *)
(* (helpers/file-operations.ts, classes/cache.ts).                         *)
(*                                                                         *)
(* Strings are modelled by names: a text delta or a file content is a name *)
(* whose UTF-8 byte length is given by ByteLen; concatenation of strings   *)
(* is concatenation of sequences of names.                                 *)
(***************************************************************************)
EXTENDS Integers, Sequences, FiniteSets, TLC

\* ------------------------------------------------------------------ bounds
MaxAsked == 4
MaxQueryLen == 2
MaxTargetLen == 3
\* Tool rounds the model may ask for in one turn.
MaxRounds == 2
\* Tool calls the model may issue in one turn (over all its responses).
MaxCalls == 3
\* Chunks the model streams in one turn (over all its streams).
MaxChunks == 4
\* The time the file layer runs for, in units of the clock.
MaxClock == 2
\* new AdaptiveFileCache(maxSize, ttl): the capacity and the time to live,
\* in units of the clock.
CacheMaxSize == 2
CacheTtl == 1
\* Steps of the file layer the model follows in one run.
MaxOps == 5
\* Calls of the cache the model follows in one run of the cache alone.
MaxCacheCalls == 4
\* The time the adaptive configuration is followed for, in units of 30
\* seconds, and the calls of the cache in that time.
MaxConfigClock == 5
MaxConfigCalls == 2
\* Chunks a streamed read is followed for.
MaxStreamChunks == 3
\* Calls of the cache the model follows between its timer's ticks.
MaxLifeCalls == 2
\* Calls of the cache the model follows when it watches the eviction order.
MaxLruCalls == 5

\* ------------------------------------------------------- program constants
\* agent.ts: const MAX_ACCUMULATED_SIZE = 50 * 1024
MAX_ACCUMULATED_SIZE == 51200
\* cache.ts: MAX_FILE_SIZE: 10 * 1024 * 1024 (the baseline of FILE_CONFIG)
MAX_FILE_SIZE == 10485760

\* ------------------------------------------------------------------- state
VARIABLES
  pc,                 \* position of the turn: idle, create, tools, streaming, done, failed
  stream,             \* options.stream
  messages,           \* currentMessages / state.currentMessages
  pending,            \* the tool calls handed to executeToolCalls
  results,            \* executeToolCalls' results so far
  finalOutput,        \* RunResult.finalOutput
  thrown,             \* what reaches the caller (or the stream's consumer) as an error
  accumulatedContent, \* state.accumulatedContent, a sequence of delta names
  contentSize,        \* state.contentSize
  toolCalls,          \* state.toolCalls, a JS array that may have holes
  events,             \* the StreamEvents yielded so far
  sent,               \* history: the message lists sent to the model, in order
  lastResponse,       \* history: the last message the model returned
  execLog,            \* history: the calls executeToolCalls handled ([id, outcome]), in order
  received,           \* history: the non-empty text deltas the model streamed, in order
  given,              \* history: the input and the history run() was called with
  fragments,          \* history: the tool-call fragments of the response being streamed, in order
  round,              \* history: completed tool rounds
  nChunks,            \* chunks streamed so far
  nextId,             \* the next fresh tool-call id the model will issue
  toolCall,           \* the last tool invocation: the tool, its input, the file system's part
  toolReply,          \* what that invocation came to
  disk,               \* the files: path -> file (or none)
  cache,              \* fileCache: its Map and totalMemoryUsage
  now,                \* Date.now()
  nOps,               \* steps of the file layer so far
  fileOp,             \* history: the last file operation and what it returned
  cacheOp,            \* history: the last call of the cache and what it returned
  tree,               \* the directory tree: the paths that exist under the root
  walk,               \* history: the last traversal or search and what it produced
  listing,            \* a call of listDirectoryOptimized: its stat promises and its result
  probe,              \* history: the last call of isLikelyBinary and its answer
  scored,             \* history: the last call of calculateFuzzyScore and its score
  chat,               \* the conversation loop: the HistoryManager and what the agent was handed
  lru,                \* history: when each cached path was last inserted or hit, and what a set evicted
  config,             \* FILE_CONFIG, lastMemoryCheck and the host's free memory
  reading             \* a call of streamLargeFile: its chunks so far and how it settled

agentVars == <<pc, stream, messages, pending, results, finalOutput, thrown,
               accumulatedContent, contentSize, toolCalls, events, sent,
               lastResponse, execLog, received, given, fragments, round,
               nChunks, nextId>>

toolVars == <<toolCall, toolReply>>
fileVars == <<disk, cache, now, nOps, fileOp, cacheOp>>

helperVars == <<tree, walk, listing, probe, scored, chat>>

adaptVars == <<lru, config, reading>>

vars == <<agentVars, toolVars, fileVars, helperVars, adaptVars>>

\* ----------------------------------------------------------------- helpers
Max(a, b) == IF a >= b THEN a ELSE b

RECURSIVE SumLen(_, _)
\* Byte length of a concatenation of named strings.
SumLen(len, s) == IF s = <<>> THEN 0 ELSE len[Head(s)] + SumLen(len, Tail(s))

\* ------------------------------------------------------ the agent's inputs
\* AgentConfig: the provider in use and the registered tools (tools/index.ts).
ProviderName == "OpenAI"
Instructions == <<"instructions">>

ToolNames == {"read_file", "list_directory", "get_file_info", "write_file",
              "search_files", "analyze_project", "search_file_content",
              "fuzzy_find_files"}

\* Names the model asks for: a registered tool and one that is not registered.
RequestedNames == {"read_file", "no_such_tool"}

\* What a registered tool's invoke does: resolves with a string, or rejects.
\* The string is opaque to the agent (the tools' own contract is modelled
\* further down).
InvokeOutcomes == {"ok", "throws"}
ToolOutput == <<"tool output">>

\* A string is a sequence of names, each standing for a piece of text of a
\* known UTF-8 byte length: "a" is one byte, "BIG" is 50 KB.
ByteLen == [n \in {"a", "BIG", "<null>"} |->
              CASE n = "a" -> 1
                [] n = "BIG" -> MAX_ACCUMULATED_SIZE
                [] OTHER -> 0]

\* Buffer.byteLength(text, 'utf8')
ByteLength(text) == SumLen(ByteLen, text)

\* The empty string, and a null or absent content.
EmptyText == <<>>
NoText == <<"<null>">>

\* JS truthiness of a string-or-null.
Falsy(text) == text = NoText \/ text = EmptyText

Msg(role, content) ==
  [role |-> role, content |-> content, tool_calls |-> <<>>, tool_call_id |-> 0]

AssistantMsg(content, calls) ==
  [role |-> "assistant", content |-> content, tool_calls |-> calls, tool_call_id |-> 0]

\* A tool message; its content is the result's JSON body.
ToolMsg(result) ==
  [role |-> "tool", content |-> result.response, tool_calls |-> <<>>,
   tool_call_id |-> result.toolCallId]

\* RunOptions.conversationHistory: ChatMessage[] with roles user and assistant.
Histories == {<<>>, <<Msg("user", <<"q0">>), Msg("assistant", <<"r0">>)>>}
Inputs == {<<"q1">>}

\* A hole of a sparse JS array (reads as undefined).
Hole == [id |-> -1, name |-> "<hole>", arguments |-> <<>>]

ToolCall(id, name, args) == [id |-> id, name |-> name, arguments |-> args]

NoError == [kind |-> "none", provider |-> "", cause |-> ""]
RawError(cause) == [kind |-> "Error", provider |-> "", cause |-> cause]
ProviderError(cause) == [kind |-> "ProviderError", provider |-> ProviderName, cause |-> cause]

\* Agent.run: `return this.runWith...(...)` inside try, with no await: the
\* catch block only sees what is thrown before the promise is returned.
ReturnIsAwaited == FALSE

\* What the caller of run() gets when the promise run() returns rejects.
RunRejection(cause) ==
  IF ReturnIsAwaited THEN ProviderError(cause) ELSE RawError(cause)

\* ---------------------------------------------------------------- Agent.run
AgentInit ==
  /\ pc = "idle"
  /\ stream = FALSE
  /\ messages = <<>>
  /\ pending = <<>>
  /\ results = <<>>
  /\ finalOutput = NoText
  /\ thrown = NoError
  /\ accumulatedContent = <<>>
  /\ contentSize = 0
  /\ toolCalls = <<>>
  /\ events = <<>>
  /\ sent = <<>>
  /\ lastResponse = Msg("none", NoText)
  /\ execLog = <<>>
  /\ received = <<>>
  /\ given = [input |-> EmptyText, history |-> <<>>]
  /\ fragments = <<>>
  /\ round = 0
  /\ nChunks = 0
  /\ nextId = 1

\* A run() that puts the user input before the history.
BuildMessagesUserFirst(input, history) ==
  <<Msg("system", Instructions), Msg("user", input)>> \o history

\* run(): system message, then the history, then the user input.
BuildMessages(input, history) ==
  <<Msg("system", Instructions)>> \o history \o <<Msg("user", input)>>

Run(input, history, streaming) ==
  /\ pc = "idle"
  /\ messages' = BuildMessages(input, history)
  /\ stream' = streaming
  /\ given' = [input |-> input, history |-> history]
  /\ pc' = "create"
  /\ UNCHANGED <<pending, results, finalOutput, thrown, accumulatedContent,
                 contentSize, toolCalls, events, sent, lastResponse, execLog,
                 round, nChunks, nextId, received, fragments>>

\* ------------------------------------------------------ runWithoutStreaming
\* The calls of a response: fresh ids, in the order issued.
NewCalls(names) ==
  [i \in 1..Len(names) |-> ToolCall(nextId + i - 1, names[i], <<"{}">>)]

\* Tool calls the model has issued so far, and the lists it may still issue.
CallsIssued == nextId - 1
CallNameLists ==
  UNION {[1..n -> RequestedNames] : n \in 1..(MaxCalls - CallsIssued)}

\* chat.completions.create rejects.
ModelRejects ==
  /\ pc = "create"
  /\ ~stream
  /\ sent' = Append(sent, messages)
  /\ thrown' = RunRejection("create rejected")
  /\ pc' = "failed"
  /\ UNCHANGED <<stream, messages, pending, results, finalOutput,
                 accumulatedContent, contentSize, toolCalls, events,
                 lastResponse, execLog, round, nChunks, nextId,
                 received, given, fragments>>

\* response.choices[0]?.message is undefined.
ModelNoChoice ==
  /\ pc = "create"
  /\ ~stream
  /\ sent' = Append(sent, messages)
  /\ thrown' = RunRejection("No response from the model")
  /\ pc' = "failed"
  /\ UNCHANGED <<stream, messages, pending, results, finalOutput,
                 accumulatedContent, contentSize, toolCalls, events,
                 lastResponse, execLog, round, nChunks, nextId,
                 received, given, fragments>>

\* A response whose message carries tool calls.
ModelRequestsTools(content, names) ==
  /\ pc = "create"
  /\ ~stream
  /\ round < MaxRounds
  /\ sent' = Append(sent, messages)
  /\ LET msg == AssistantMsg(content, NewCalls(names))
     IN /\ lastResponse' = msg
        /\ messages' = Append(messages, msg)
        /\ pending' = msg.tool_calls
  /\ results' = <<>>
  /\ nextId' = nextId + Len(names)
  /\ pc' = "tools"
  /\ UNCHANGED <<stream, finalOutput, thrown, accumulatedContent, contentSize,
                 toolCalls, events, execLog, round, nChunks,
                 received, given, fragments>>

\* A loop that returns message.content as it is.
FinalResponseRaw(content) == content

\* finalResponse = message.content || 'No response generated'
FinalResponse(content) ==
  IF Falsy(content) THEN <<"No response generated">> ELSE content

\* A response whose message carries no tool calls.
ModelAnswers(content) ==
  /\ pc = "create"
  /\ ~stream
  /\ sent' = Append(sent, messages)
  /\ LET msg == AssistantMsg(content, <<>>)
     IN /\ lastResponse' = msg
        /\ messages' = Append(messages, msg)
  /\ finalOutput' = FinalResponse(content)
  /\ pc' = "done"
  /\ UNCHANGED <<stream, pending, results, thrown, accumulatedContent,
                 contentSize, toolCalls, events, execLog, round, nChunks, nextId,
                 received, given, fragments>>

\* --------------------------------------------------------- executeToolCalls
\* JSON.stringify({success, error}): the text as a sequence of tokens.
JsonStringify(success, error) ==
  <<"{\"success\":", IF success THEN "true" ELSE "false", ",\"error\":", error, "}">>

\* JSON.parse of such a text; ok is FALSE where JSON.parse would throw.
JsonParse(text) ==
  IF /\ Len(text) = 5
     /\ text[1] = "{\"success\":"
     /\ text[2] \in {"true", "false"}
     /\ text[3] = ",\"error\":"
     /\ text[5] = "}"
    THEN [ok |-> TRUE, success |-> text[2] = "true", error |-> text[4]]
    ELSE [ok |-> FALSE, success |-> FALSE, error |-> ""]

\* The result pushed for a registered tool whose invoke resolved.
ResolvedResult(call) ==
  [toolCallId |-> call.id, success |-> TRUE,
   response |-> ToolOutput,
   error |-> ""]

\* The result pushed when invoke throws.
CaughtResult(call) ==
  [toolCallId |-> call.id, success |-> FALSE,
   response |-> JsonStringify(FALSE, "Tool execution failed"),
   error |-> "invoke threw"]

\* The result pushed for a name that is not registered.
UnknownResult(call) ==
  [toolCallId |-> call.id, success |-> FALSE,
   response |-> JsonStringify(FALSE, "Unknown tool"),
   error |-> "Unknown tool"]

\* A loop body without the try block around invoke.
ToolStepUncaught(call, outcome) ==
  IF call.name \in ToolNames
    THEN IF outcome = "throws"
           THEN [escapes |-> TRUE, result |-> CaughtResult(call)]
           ELSE [escapes |-> FALSE, result |-> ResolvedResult(call)]
    ELSE [escapes |-> FALSE, result |-> UnknownResult(call)]

\* The body of the loop for one call: the result it pushes, and whether
\* an exception leaves executeToolCalls instead (invoke is awaited inside
\* the try block, so none does).
ToolStep(call, outcome) ==
  IF call.name \in ToolNames
    THEN IF outcome = "throws"
           THEN [escapes |-> FALSE, result |-> CaughtResult(call)]
           ELSE [escapes |-> FALSE, result |-> ResolvedResult(call)]
    ELSE [escapes |-> FALSE, result |-> UnknownResult(call)]

\* results.unshift(...)
PushResultFront(rs, r) == <<r>> \o rs

\* results.push(...)
PushResult(rs, r) == Append(rs, r)

\* One iteration of `for (const toolCall of toolCalls)`.
ExecuteToolCall(outcome) ==
  /\ pc = "tools"
  /\ Len(results) < Len(pending)
  /\ LET call == pending[Len(results) + 1]
         step == ToolStep(call, outcome)
     IN /\ call # Hole
        /\ (call.name \notin ToolNames) <=> (outcome = "unknown")
        /\ execLog' = Append(execLog, [id |-> call.id, outcome |-> outcome])
        /\ IF step.escapes
             THEN /\ thrown' = RawError("tool threw")
                  /\ pc' = "failed"
                  /\ UNCHANGED results
             ELSE /\ results' = PushResult(results, step.result)
                  /\ UNCHANGED <<pc, thrown>>
  /\ UNCHANGED <<stream, messages, pending, finalOutput,
                 accumulatedContent, contentSize, toolCalls, events, sent,
                 lastResponse, round, nChunks, nextId,
                 received, given, fragments>>

\* The iteration reads a hole of the array: toolCall is undefined and
\* toolCall.function throws a TypeError outside the try block.
ExecuteHole ==
  /\ pc = "tools"
  /\ Len(results) < Len(pending)
  /\ pending[Len(results) + 1] = Hole
  /\ thrown' = RawError("TypeError in executeToolCalls")
  /\ pc' = "failed"
  /\ UNCHANGED <<stream, messages, pending, results, finalOutput,
                 accumulatedContent, contentSize, toolCalls, events, sent,
                 lastResponse, execLog, round, nChunks, nextId,
                 received, given, fragments>>

RECURSIVE ToolMsgs(_)
ToolMsgs(rs) == IF rs = <<>> THEN <<>> ELSE <<ToolMsg(Head(rs))>> \o ToolMsgs(Tail(rs))

\* runWithoutStreaming: push one tool message per result, then loop.
ToolsDone ==
  /\ pc = "tools"
  /\ ~stream
  /\ Len(results) = Len(pending)
  /\ messages' = messages \o ToolMsgs(results)
  /\ round' = round + 1
  /\ pc' = "create"
  /\ UNCHANGED <<stream, pending, results, finalOutput, thrown,
                 accumulatedContent, contentSize, toolCalls, events, sent,
                 lastResponse, execLog, nChunks, nextId,
                 received, given, fragments>>

\* ------------------------------------------------------------ processStream
\* A StreamEvent. rnd and cid are history: the tool round the event was
\* yielded in and the tool call it is about (0: none).
TextEvent(delta, rnd) ==
  [type |-> "output_text_delta", delta |-> delta, name |-> "", rnd |-> rnd, cid |-> 0]

TruncationNotice == <<"[Content truncated due to size limit]">>

StartedEvent(name, rnd, cid) ==
  [type |-> "tool_call_item", delta |-> EmptyText, name |-> name, rnd |-> rnd, cid |-> cid]

CompletionEvent(result, rnd) ==
  [type |-> "tool_call_output_item", delta |-> EmptyText, name |-> "", rnd |-> rnd,
   cid |-> result.toolCallId]

ErrorEvent(result, rnd) ==
  [type |-> "output_text_delta", delta |-> <<"Error executing tool: ", result.error>>,
   name |-> "", rnd |-> rnd, cid |-> result.toolCallId]

\* A fragment of delta.tool_calls. id 0 and name "" stand for absent fields.
Fragment(index, id, name, args) ==
  [index |-> index, id |-> id, name |-> name, arguments |-> args]

\* A ChatCompletionChunk: choices[0] (or none), its delta and finish_reason.
Chunk(content, frags, finish) ==
  [hasChoice |-> TRUE, content |-> content, tool_calls |-> frags, finish_reason |-> finish]
NoChoiceChunk ==
  [hasChoice |-> FALSE, content |-> NoText, tool_calls |-> <<>>, finish_reason |-> "null"]

\* The events of `if (delta.content) { ... }`.
ContentEvents(content, size, rnd) ==
  IF Falsy(content) THEN <<>>
  ELSE IF size + ByteLength(content) > MAX_ACCUMULATED_SIZE
    THEN <<TextEvent(TruncationNotice, rnd)>>
    ELSE <<TextEvent(content, rnd)>>

\* Whether `if (delta.content) { ... }` accumulates the delta.
Accumulates(content, size) ==
  /\ ~Falsy(content)
  /\ size + ByteLength(content) <= MAX_ACCUMULATED_SIZE

\* !state.toolCalls[index]
SlotEmpty(calls, index) == index + 1 > Len(calls) \/ calls[index + 1] = Hole

\* state.toolCalls[index] = call, on a JS array
SetSlot(calls, index, call) ==
  [k \in 1..Max(Len(calls), index + 1) |->
     IF k = index + 1 THEN call
     ELSE IF k <= Len(calls) THEN calls[k] ELSE Hole]

RECURSIVE StartedEvents(_, _, _)
\* The loop of lines 271-284: one event per fragment whose slot is empty
\* in the state as it is before handleToolCallDeltas runs.
StartedEvents(frags, calls, rnd) ==
  IF frags = <<>> THEN <<>>
  ELSE LET f == Head(frags)
           name == IF f.name = "" THEN "unknown_tool" ELSE f.name
       IN (IF SlotEmpty(calls, f.index) THEN <<StartedEvent(name, rnd, f.id)>> ELSE <<>>)
          \o StartedEvents(Tail(frags), calls, rnd)

\* An iteration that puts a later fragment's arguments in front.
ApplyDeltaPrepends(calls, f) ==
  IF SlotEmpty(calls, f.index)
    THEN SetSlot(calls, f.index, ToolCall(f.id, f.name, f.arguments))
    ELSE [calls EXCEPT ![f.index + 1].arguments = f.arguments \o @]

\* One iteration of handleToolCallDeltas' loop.
ApplyDelta(calls, f) ==
  IF SlotEmpty(calls, f.index)
    THEN SetSlot(calls, f.index, ToolCall(f.id, f.name, f.arguments))
    ELSE IF f.arguments # <<>>
      THEN [calls EXCEPT ![f.index + 1].arguments = @ \o f.arguments]
      ELSE calls

RECURSIVE HandleToolCallDeltas(_, _)
HandleToolCallDeltas(calls, frags) ==
  IF frags = <<>> THEN calls
  ELSE HandleToolCallDeltas(ApplyDelta(calls, Head(frags)), Tail(frags))

\* `choice.finish_reason === 'tool_calls' && state.toolCalls.length > 0`
ToolsRequested(finish, calls) == finish = "tool_calls" /\ Len(calls) > 0

\* chat.completions.create({... stream: true}) resolves with a stream:
\* runWithStreaming for the first request, processStream for a follow-up.
StreamOpens ==
  /\ pc = "create"
  /\ stream
  /\ sent' = Append(sent, messages)
  /\ accumulatedContent' = EmptyText
  /\ contentSize' = 0
  /\ toolCalls' = <<>>
  /\ fragments' = <<>>
  /\ pc' = "streaming"
  /\ UNCHANGED <<stream, messages, pending, results, finalOutput, thrown, events,
                 lastResponse, execLog, round, nChunks, nextId,
                 received, given>>

\* The request rejects. The first request is awaited in runWithStreaming,
\* whose promise run() returns; a follow-up request is awaited inside the
\* generator, which run() has long returned.
StreamRejects ==
  /\ pc = "create"
  /\ stream
  /\ sent' = Append(sent, messages)
  /\ thrown' = IF round = 0 THEN RunRejection("create rejected")
                            ELSE RawError("follow-up create rejected")
  /\ pc' = "failed"
  /\ UNCHANGED <<stream, messages, pending, results, finalOutput,
                 accumulatedContent, contentSize, toolCalls, events,
                 lastResponse, execLog, round, nChunks, nextId,
                 received, given, fragments>>

\* One iteration of `for await (const chunk of stream)`.
StreamChunk(chunk) ==
  /\ pc = "streaming"
  /\ nChunks < MaxChunks
  /\ nChunks' = nChunks + 1
  /\ IF ~chunk.hasChoice
       THEN UNCHANGED <<pc, accumulatedContent, contentSize, toolCalls, events,
                        pending, results, received, fragments>>
       ELSE LET calls == HandleToolCallDeltas(toolCalls, chunk.tool_calls)
            IN /\ accumulatedContent' =
                    IF Accumulates(chunk.content, contentSize)
                      THEN accumulatedContent \o chunk.content
                      ELSE accumulatedContent
               /\ contentSize' =
                    IF Accumulates(chunk.content, contentSize)
                      THEN contentSize + ByteLength(chunk.content)
                      ELSE contentSize
               /\ events' = events \o ContentEvents(chunk.content, contentSize, round)
                                   \o StartedEvents(chunk.tool_calls, toolCalls, round)
               /\ toolCalls' = calls
               /\ fragments' = fragments \o chunk.tool_calls
               /\ received' = IF Falsy(chunk.content) THEN received
                                                      ELSE Append(received, chunk.content)
               /\ IF ToolsRequested(chunk.finish_reason, calls)
                    THEN /\ pending' = calls
                         /\ results' = <<>>
                         /\ pc' = "tools"
                    ELSE UNCHANGED <<pc, pending, results>>
  /\ nextId' = nextId + Len(SelectSeq(chunk.tool_calls, LAMBDA f : f.id # 0))
  /\ UNCHANGED <<stream, messages, finalOutput, thrown, sent, lastResponse,
                 execLog, round, given>>

\* The stream is exhausted: the generator returns.
StreamEnds ==
  /\ pc = "streaming"
  /\ pc' = "done"
  /\ finalOutput' = EmptyText
  /\ UNCHANGED <<stream, messages, pending, results, thrown, accumulatedContent,
                 contentSize, toolCalls, events, sent, lastResponse, execLog,
                 round, nChunks, nextId,
                 received, given, fragments>>

\* Reading the stream fails: the generator throws to its consumer.
StreamFails ==
  /\ pc = "streaming"
  /\ thrown' = RawError("stream failed")
  /\ pc' = "failed"
  /\ UNCHANGED <<stream, messages, pending, results, finalOutput,
                 accumulatedContent, contentSize, toolCalls, events, sent,
                 lastResponse, execLog, round, nChunks, nextId,
                 received, given, fragments>>

\* Completion events emitted from the last result to the first.
ResultEventsReversed(rs, rnd) ==
  [i \in 1..Len(rs) |->
     LET r == rs[Len(rs) + 1 - i]
     IN IF r.success THEN CompletionEvent(r, rnd) ELSE ErrorEvent(r, rnd)]

RECURSIVE ResultEvents(_, _)
\* "Emit tool completion events": one event per result, in order.
ResultEvents(rs, rnd) ==
  IF rs = <<>> THEN <<>>
  ELSE <<IF Head(rs).success THEN CompletionEvent(Head(rs), rnd)
                             ELSE ErrorEvent(Head(rs), rnd)>>
       \o ResultEvents(Tail(rs), rnd)

\* followupMessages
FollowupMessages(msgs, content, calls, rs) ==
  msgs \o <<AssistantMsg(IF Falsy(content) THEN NoText ELSE content, calls)>>
       \o ToolMsgs(rs)

\* processStream after executeToolCalls: the completion events, then the
\* follow-up request with the extended message list.
StreamToolsDone ==
  /\ pc = "tools"
  /\ stream
  /\ Len(results) = Len(pending)
  /\ events' = events \o ResultEvents(results, round)
  /\ messages' = FollowupMessages(messages, accumulatedContent, toolCalls, results)
  /\ lastResponse' = AssistantMsg(IF Falsy(accumulatedContent) THEN NoText
                                  ELSE accumulatedContent, toolCalls)
  /\ round' = round + 1
  /\ pc' = "create"
  /\ UNCHANGED <<stream, pending, results, finalOutput, thrown,
                 accumulatedContent, contentSize, toolCalls, sent, execLog,
                 nChunks, nextId,
                 received, given, fragments>>

\* The chunks the model may stream in the current state.
TextChunks == {Chunk(t, <<>>, "null") : t \in {<<"a">>, <<"BIG">>, EmptyText}}

HeadFragment(index, name) == Fragment(index, nextId, name, EmptyText)
ArgsFragment(index) == Fragment(index, 0, "", <<"x">>)

\* Indices the model uses: it may skip index 0.
StreamIndices == {0, 1}
FreeIndices == {i \in StreamIndices : SlotEmpty(toolCalls, i)}
OpenIndices == {i \in StreamIndices : ~SlotEmpty(toolCalls, i)}

ToolChunks ==
  IF round < MaxRounds /\ CallsIssued < MaxCalls
    THEN {Chunk(NoText, <<HeadFragment(i, n)>>, "null") :
             i \in FreeIndices, n \in RequestedNames}
         \cup {Chunk(NoText, <<HeadFragment(i, "read_file"), ArgsFragment(i)>>, "null") :
             i \in FreeIndices}
         \cup {Chunk(NoText, <<ArgsFragment(i)>>, "null") : i \in OpenIndices}
    ELSE {}

\* The fragments of a response, in any interleaving of the indices and any
\* grouping into chunks.  The most fragments a response is made of:
MaxFragments == 4
FragmentArgs == {<<"x">>, <<"y">>}

\* The fragments the model may send next: for an index it has not used
\* (in this response, nor earlier in the chunk) the id, the name and
\* perhaps the first arguments; for a used one, more arguments.
NextFragments(used, id) ==
  {Fragment(i, id, "read_file", a) :
     i \in {j \in FreeIndices : j \notin used}, a \in {EmptyText, <<"x">>}}
  \cup {Fragment(i, 0, "", a) :
     i \in {j \in StreamIndices : j \in OpenIndices \/ j \in used}, a \in FragmentArgs}

FragmentLists ==
  {<<f>> : f \in NextFragments({}, nextId)}
  \cup UNION {{<<f, g>> : g \in NextFragments({f.index}, nextId + 1)} :
               f \in NextFragments({}, nextId)}

FragmentChunks ==
  {Chunk(NoText, fs, fin) :
     fs \in {l \in FragmentLists :
               round = 0 /\ Len(fragments) + Len(l) <= MaxFragments},
     fin \in {"null", "tool_calls"}}

\* A step of the agent leaves the tools and the files alone.
AgentOnly == UNCHANGED <<toolVars, fileVars, helperVars, adaptVars>>

FinishChunks == {Chunk(NoText, <<>>, r) : r \in {"stop", "tool_calls"}}

AgentNextStreaming ==
  \/ StreamOpens /\ AgentOnly
  \/ StreamRejects /\ AgentOnly
  \/ \E c \in TextChunks : StreamChunk(c) /\ AgentOnly
  \/ \E c \in ToolChunks : StreamChunk(c) /\ AgentOnly
  \/ \E c \in FinishChunks : StreamChunk(c) /\ AgentOnly
  \/ StreamChunk(NoChoiceChunk) /\ AgentOnly
  \/ StreamEnds /\ AgentOnly
  \/ StreamFails /\ AgentOnly
  \/ ExecuteHole /\ AgentOnly
  \/ StreamToolsDone /\ AgentOnly

AgentNextBlocking ==
  \/ \E h \in Histories, i \in Inputs, s \in BOOLEAN : Run(i, h, s) /\ AgentOnly
  \/ ModelRejects /\ AgentOnly
  \/ ModelNoChoice /\ AgentOnly
  \/ \E ns \in CallNameLists : ModelRequestsTools(NoText, ns) /\ AgentOnly
  \/ \E c \in {NoText, EmptyText, <<"a">>} : ModelAnswers(c) /\ AgentOnly
  \/ \E o \in InvokeOutcomes \cup {"unknown"} : ExecuteToolCall(o) /\ AgentOnly
  \/ ToolsDone /\ AgentOnly

\* A streamed run whose responses are made of tool-call fragments.
FragmentsNext ==
  \/ \E i \in Inputs : Run(i, <<>>, TRUE) /\ AgentOnly
  \/ StreamOpens /\ AgentOnly
  \/ \E c \in FragmentChunks : StreamChunk(c) /\ AgentOnly
  \/ \E c \in FinishChunks : StreamChunk(c) /\ AgentOnly
  \/ \E o \in InvokeOutcomes : ExecuteToolCall(o) /\ AgentOnly
  \/ ExecuteHole /\ AgentOnly
  \/ StreamToolsDone /\ AgentOnly
  \/ StreamEnds /\ AgentOnly

\* ======================================================= the tool registry
\* The argument string handed to invoke, by what JSON.parse makes of it:
\* "malformed" (a SyntaxError), a value that is no object ("null",
\* "number", "string", "array"), or an object, given by the kind of value
\* each property holds. An undeclared property is called "extra".
ValueKinds == {"absent", "str", "empty", "num", "true", "false"}
NonObjects == {"malformed", "null", "number", "string", "array"}

NonObjectInput(kind) == [kind |-> kind, props |-> [p \in {} |-> "absent"]]
ObjectInput(props) == [kind |-> "object", props |-> props]

\* parsed[p]; "absent" stands for undefined.
Prop(input, p) == IF p \in DOMAIN input.props THEN input.props[p] ELSE "absent"

\* parameters.required and the declared properties of each tool.
Required ==
  [t \in ToolNames |->
     CASE t = "read_file" -> {"file_path"}
       [] t = "list_directory" -> {"directory_path", "include_hidden"}
       [] t = "get_file_info" -> {"file_path"}
       [] t = "write_file" -> {"file_path", "content", "overwrite"}
       [] t = "search_files" -> {"directory_path", "pattern"}
       [] t = "analyze_project" -> {"project_path"}
       [] t = "search_file_content" -> {"directory_path", "search_term"}
       [] t = "fuzzy_find_files" -> {"query"}]

\* The properties of each tool that the inputs below vary.
Varied ==
  [t \in ToolNames |->
     CASE t = "search_files" -> Required[t] \cup {"fuzzy_search"}
       [] t = "analyze_project" -> Required[t] \cup {"max_depth"}
       [] t = "search_file_content" -> Required[t] \cup {"max_results"}
       [] t = "fuzzy_find_files" -> Required[t] \cup {"directory_path", "max_results"}
       [] OTHER -> Required[t]]

ToolInputs(t) ==
  {NonObjectInput(k) : k \in NonObjects}
  \cup {ObjectInput(f) :
          f \in {g \in [Varied[t] \cup {"extra"} -> ValueKinds] :
                   g["extra"] \in {"absent", "str"}}}

\* What the file system does with the operation: it works, it fails (an
\* I/O error), or the operation declines (a binary file for read_file, an
\* existing file without overwrite for write_file).
FsOutcomes == {"ok", "fails", "declines"}

\* JS truthiness of a property value.
Truthy(kind) == kind \in {"str", "num", "true"}

\* --- helpers/validation.ts
\* z.string().min(1), z.string(), z.boolean(), z.number().int().min(1).max(500),
\* z.number().min(0).max(1); "num" is a number the property accepts.
TypeOk(type, kind) ==
  CASE type = "string1" -> kind = "str"
    [] type = "string" -> kind \in {"str", "empty"}
    [] type = "boolean" -> kind \in {"true", "false"}
    [] type = "int" -> kind = "num"
    [] type = "score" -> kind = "num"

ReadFileInputSchema == [file_path |-> "string1"]
ListDirectoryInputSchema == [directory_path |-> "string1", include_hidden |-> "boolean"]
GetFileInfoInputSchema == [file_path |-> "string1"]
WriteFileInputSchema == [file_path |-> "string1", content |-> "string", overwrite |-> "boolean"]
SearchFilesInputBaseSchema ==
  [directory_path |-> "string1", pattern |-> "string1", max_results |-> "int",
   case_sensitive |-> "boolean", fuzzy_search |-> "boolean",
   min_score |-> "score", include_directories |-> "boolean"]
\* The defaults SearchFilesInputSchema's preprocess step spreads under the input.
SearchFilesDefaults ==
  [max_results |-> "num", case_sensitive |-> "false", fuzzy_search |-> "false",
   min_score |-> "num", include_directories |-> "false"]
NoDefaults == [p \in {} |-> "absent"]

\* z.object(...) as built here, without .strict(): unknown keys are
\* stripped from the parsed value, not reported.
UnknownKeysRejected == FALSE

Thrown == [threw |-> TRUE, args |-> [p \in {} |-> "absent"]]

\* schema.parse(parsed), after a preprocess step that spreads defaults.
ZodParse(schema, defaults, input) ==
  IF input.kind # "object" THEN Thrown
  ELSE LET value == [p \in DOMAIN schema |->
                       IF Prop(input, p) = "absent" /\ p \in DOMAIN defaults
                         THEN defaults[p] ELSE Prop(input, p)]
           unknown == {p \in DOMAIN input.props :
                          p \notin DOMAIN schema /\ input.props[p] # "absent"}
       IN IF UnknownKeysRejected /\ unknown # {} THEN Thrown
          ELSE IF \A p \in DOMAIN schema : TypeOk(schema[p], value[p])
            THEN [threw |-> FALSE, args |-> value]
            ELSE Thrown

\* validateToolInput: JSON.parse, then schema.parse; both failures are
\* rethrown as an Error.
ValidateToolInput(schema, defaults, input) ==
  IF input.kind = "malformed" THEN Thrown ELSE ZodParse(schema, defaults, input)

\* validateAnalyzeProjectInput
ValidateAnalyzeProjectInput(input) ==
  IF input.kind # "object" THEN Thrown
  ELSE IF Prop(input, "project_path") # "str" THEN Thrown
  ELSE [threw |-> FALSE,
        args |-> [project_path |-> "str",
                  max_depth |-> IF Truthy(Prop(input, "max_depth"))
                                  THEN Prop(input, "max_depth") ELSE "num"]]

\* validateSearchFileContentInput
ValidateSearchFileContentInput(input) ==
  IF input.kind # "object" THEN Thrown
  ELSE IF Prop(input, "directory_path") # "str" THEN Thrown
  ELSE IF Prop(input, "search_term") # "str" THEN Thrown
  ELSE [threw |-> FALSE,
        args |-> [directory_path |-> "str", search_term |-> "str",
                  max_results |-> IF Truthy(Prop(input, "max_results"))
                                    THEN Prop(input, "max_results") ELSE "num"]]

\* --- tools/*.ts
\* What the body of an invoke's try block comes to: it returns a text, or
\* it throws; performed tells whether the file operation was called.
Returns(success, detail, performed) ==
  [threw |-> FALSE, text |-> JsonStringify(success, detail), performed |-> performed]
Throws(performed) == [threw |-> TRUE, text |-> EmptyText, performed |-> performed]

\* A catch block that throws the error on.
CatchBlockRethrows(body) ==
  [resolved |-> FALSE, text |-> EmptyText, performed |-> body.performed]

\* The catch block of every invoke: a {success:false, error} text.
CatchBlock(body) ==
  [resolved |-> TRUE, text |-> JsonStringify(FALSE, "error message"),
   performed |-> body.performed]

\* invoke: try { body } catch { ... }
TryCatch(body) ==
  IF body.threw THEN CatchBlock(body)
  ELSE [resolved |-> TRUE, text |-> body.text, performed |-> body.performed]

\* An operation that throws a FileOperationError when the file system fails.
FileOperation(fs) ==
  IF fs = "fails" THEN Throws(TRUE) ELSE Returns(TRUE, "result", TRUE)

\* A traversal (traverseDirectory, fuzzySearchFiles): unreadable
\* directories and files are skipped, so it never throws.
Traversal == Returns(TRUE, "results", TRUE)

ReadFileInvoke(input, fs) ==
  TryCatch(IF ValidateToolInput(ReadFileInputSchema, NoDefaults, input).threw
             THEN Throws(FALSE)
           ELSE IF fs = "declines"
             THEN Returns(FALSE, "File appears to be binary", FALSE)
             ELSE FileOperation(fs))

ListDirectoryInvoke(input, fs) ==
  TryCatch(IF ValidateToolInput(ListDirectoryInputSchema, NoDefaults, input).threw
             THEN Throws(FALSE)
             ELSE FileOperation(fs))

GetFileInfoInvoke(input, fs) ==
  TryCatch(IF ValidateToolInput(GetFileInfoInputSchema, NoDefaults, input).threw
             THEN Throws(FALSE)
             ELSE FileOperation(fs))

WriteFileInvoke(input, fs) ==
  LET v == ValidateToolInput(WriteFileInputSchema, NoDefaults, input)
  IN TryCatch(IF v.threw THEN Throws(FALSE)
              ELSE IF fs = "declines" /\ v.args.overwrite = "false"
                THEN Returns(FALSE, "File already exists", TRUE)
                ELSE FileOperation(fs))

SearchFilesInvoke(input, fs) ==
  LET v == ValidateToolInput(SearchFilesInputBaseSchema, SearchFilesDefaults, input)
  IN TryCatch(IF v.threw THEN Throws(FALSE)
              ELSE IF v.args.fuzzy_search = "true"
                THEN Returns(TRUE, "fuzzy results", TRUE)
                ELSE Traversal)

AnalyzeProjectInvoke(input, fs) ==
  TryCatch(IF ValidateAnalyzeProjectInput(input).threw THEN Throws(FALSE) ELSE Traversal)

SearchFileContentInvoke(input, fs) ==
  TryCatch(IF ValidateSearchFileContentInput(input).threw THEN Throws(FALSE) ELSE Traversal)

\* fuzzy_find_files parses by hand: reading parsed.query of null throws,
\* of another value gives undefined; path.resolve throws on a truthy
\* directory_path that is no string.
FuzzyFindFilesInvoke(input, fs) ==
  TryCatch(IF input.kind \in {"malformed", "null"} THEN Throws(FALSE)
           ELSE IF Prop(input, "query") # "str"
             THEN Returns(FALSE, "Query is required and must be a string", FALSE)
           ELSE IF Prop(input, "directory_path") \in {"num", "true"}
             THEN Throws(TRUE)
             ELSE Traversal)

Invoke(t, input, fs) ==
  CASE t = "read_file" -> ReadFileInvoke(input, fs)
    [] t = "list_directory" -> ListDirectoryInvoke(input, fs)
    [] t = "get_file_info" -> GetFileInfoInvoke(input, fs)
    [] t = "write_file" -> WriteFileInvoke(input, fs)
    [] t = "search_files" -> SearchFilesInvoke(input, fs)
    [] t = "analyze_project" -> AnalyzeProjectInvoke(input, fs)
    [] t = "search_file_content" -> SearchFileContentInvoke(input, fs)
    [] t = "fuzzy_find_files" -> FuzzyFindFilesInvoke(input, fs)

ToolsInit ==
  /\ toolCall = [tool |-> "none", input |-> NonObjectInput("null"), fs |-> "ok"]
  /\ toolReply = [resolved |-> TRUE, text |-> EmptyText, performed |-> FALSE]

\* tool.invoke(runContext, input)
InvokeTool(t, input, fs) ==
  /\ toolCall.tool = "none"
  /\ toolCall' = [tool |-> t, input |-> input, fs |-> fs]
  /\ toolReply' = Invoke(t, input, fs)
  /\ UNCHANGED <<agentVars, fileVars, helperVars, adaptVars>>

\* The caller takes the reply; the tools keep no state between calls.
ReplyTaken ==
  /\ toolCall.tool # "none"
  /\ toolCall' = [tool |-> "none", input |-> NonObjectInput("null"), fs |-> "ok"]
  /\ toolReply' = [resolved |-> TRUE, text |-> EmptyText, performed |-> FALSE]
  /\ UNCHANGED <<agentVars, fileVars, helperVars, adaptVars>>

ToolsNext ==
  \/ ReplyTaken
  \/ \E i \in ToolInputs("read_file"), fs \in FsOutcomes : InvokeTool("read_file", i, fs)
  \/ \E i \in ToolInputs("list_directory"), fs \in FsOutcomes :
       InvokeTool("list_directory", i, fs)
  \/ \E i \in ToolInputs("get_file_info"), fs \in FsOutcomes :
       InvokeTool("get_file_info", i, fs)
  \/ \E i \in ToolInputs("write_file"), fs \in FsOutcomes : InvokeTool("write_file", i, fs)
  \/ \E i \in ToolInputs("search_files"), fs \in FsOutcomes :
       InvokeTool("search_files", i, fs)
  \/ \E i \in ToolInputs("analyze_project"), fs \in FsOutcomes :
       InvokeTool("analyze_project", i, fs)
  \/ \E i \in ToolInputs("search_file_content"), fs \in FsOutcomes :
       InvokeTool("search_file_content", i, fs)
  \/ \E i \in ToolInputs("fuzzy_find_files"), fs \in FsOutcomes :
       InvokeTool("fuzzy_find_files", i, fs)

\* ====================================================== the file access layer
\* helpers/file-operations.ts over classes/cache.ts. Each operation is one
\* step: the agent awaits every tool call before it starts the next, so
\* operations of this process do not interleave; other processes change
\* the disk between them (ExternalChange).
Paths == {"p1", "p2"}
Contents == {"", "a", "b", "cc"}

\* Buffer.byteLength(content, 'utf8'), and the size stat reports.
FileByteLength(content) ==
  CASE content = "" -> 0
    [] content = "a" -> 1
    [] content = "b" -> 1
    [] content = "cc" -> 2
    [] content = "LARGE" -> MAX_FILE_SIZE

NoFile == [exists |-> FALSE, content |-> "", mtime |-> 0]
File(content, mtime) == [exists |-> TRUE, content |-> content, mtime |-> mtime]

\* os.freemem() / os.totalmem() at the time of a call, by the thresholds
\* the code compares it with: at most 0.6, above 0.6, above 0.8.
Pressures == {"low", "raised", "high"}

\* --- AdaptiveFileCache
\* The Map is a sequence of entries in insertion order.
Entry(path, content, timestamp, size, accessCount) ==
  [path |-> path, content |-> content, timestamp |-> timestamp, size |-> size,
   accessCount |-> accessCount]
NoEntry == Entry("<none>", "", 0, 0, 0)

CachedPaths(c) == {c[i].path : i \in DOMAIN c}

\* The entries of the Map.
Entries(c) == {c[i] : i \in DOMAIN c}

\* this.cache.get(filePath)
Lookup(c, path) ==
  IF path \in CachedPaths(c)
    THEN c[CHOOSE i \in DOMAIN c : c[i].path = path]
    ELSE NoEntry

\* this.cache.delete(filePath)
MapDelete(c, path) == SelectSeq(c, LAMBDA e : e.path # path)

\* A Map.set that leaves the value of an existing key.
MapSetIfAbsent(c, entry) ==
  IF entry.path \in CachedPaths(c) THEN c ELSE Append(c, entry)

\* this.cache.set(filePath, entry): an existing key keeps its place.
MapSet(c, entry) ==
  IF entry.path \in CachedPaths(c)
    THEN [i \in DOMAIN c |-> IF c[i].path = entry.path THEN entry ELSE c[i]]
    ELSE Append(c, entry)

\* new AdaptiveFileCache(maxSize, ttl): the Map, totalMemoryUsage and the
\* readonly fields maxSize and ttl.
NewCache(maxSize, ttl) == [map |-> <<>>, usage |-> 0, maxSize |-> maxSize, ttl |-> ttl]

\* The cache's state with this Map and totalMemoryUsage, when the fields
\* are CacheMaxSize and CacheTtl.
CacheState(map, usage) == [NewCache(CacheMaxSize, CacheTtl) EXCEPT !.map = map, !.usage = usage]

\* The same cache object with another Map and totalMemoryUsage.
With(cs, map, usage) == [cs EXCEPT !.map = map, !.usage = usage]

\* A delete that only adjusts the memory count.
CacheDeleteKeepsEntry(cs, path) ==
  IF path \in CachedPaths(cs.map)
    THEN With(cs, cs.map, cs.usage - FileByteLength(Lookup(cs.map, path).content))
    ELSE cs

\* delete(filePath)
CacheDelete(cs, path) ==
  IF path \in CachedPaths(cs.map)
    THEN With(cs, MapDelete(cs.map, path),
                    cs.usage - FileByteLength(Lookup(cs.map, path).content))
    ELSE cs

RECURSIVE DeleteAll(_, _)
DeleteAll(cs, keys) ==
  IF keys = <<>> THEN cs ELSE DeleteAll(CacheDelete(cs, Head(keys)), Tail(keys))

\* A cleanup that removes nothing.
CleanupNothing(cs, t) == cs

\* cleanupExpired()
CleanupExpired(cs, t) ==
  LET expired == SelectSeq(cs.map, LAMBDA e : t - e.timestamp > cs.ttl)
  IN DeleteAll(cs, [i \in DOMAIN expired |-> expired[i].path])

\* emergencyCleanup's score, times ten: accessCount * 0.7 + age * 0.3
Score(e, t) == e.accessCount * 7 + (t - e.timestamp) * 3

RECURSIVE SortByScore(_, _)
\* Array.prototype.sort with that comparison: stable, ascending.
SortByScore(es, t) ==
  IF es = <<>> THEN <<>>
  ELSE LET least == CHOOSE i \in DOMAIN es :
                      /\ \A j \in DOMAIN es : Score(es[i], t) <= Score(es[j], t)
                      /\ \A j \in 1..(i - 1) : Score(es[j], t) > Score(es[i], t)
       IN <<es[least]>>
          \o SortByScore(SubSeq(es, 1, least - 1) \o SubSeq(es, least + 1, Len(es)), t)

\* emergencyCleanup()
EmergencyCleanup(cs, t) ==
  LET targetSize == cs.maxSize \div 2
  IN IF Len(cs.map) <= targetSize THEN cs
     ELSE LET entries == SortByScore(cs.map, t)
              toRemove == SubSeq(entries, 1, Len(cs.map) - targetSize)
          IN DeleteAll(cs, [i \in DOMAIN toRemove |-> toRemove[i].path])

\* A set that makes no room.
EvictNothing(cs) == cs

RECURSIVE EvictOldest(_)
\* while (this.cache.size >= this.maxSize) delete the first key; the loop
\* breaks on a first key that is falsy (no key, or the empty string).
EvictOldest(cs) ==
  IF Len(cs.map) >= cs.maxSize /\ cs.map # <<>> /\ cs.map[1].path # ""
    THEN EvictOldest(CacheDelete(cs, cs.map[1].path))
    ELSE cs

\* A get that does not compare sizes.
CacheGetAnySize(cs, path, fileSize, t) ==
  LET cached == Lookup(cs.map, path)
  IN IF path \notin CachedPaths(cs.map)
       THEN [hit |-> FALSE, content |-> "", cache |-> cs]
     ELSE IF t - cached.timestamp > cs.ttl
       THEN [hit |-> FALSE, content |-> "", cache |-> CacheDelete(cs, path)]
     ELSE LET touched == [cached EXCEPT !.timestamp = t,
                                        !.accessCount = cached.accessCount + 1]
          IN [hit |-> TRUE, content |-> cached.content,
              cache |-> With(cs, Append(MapDelete(cs.map, path), touched), cs.usage)]

\* get(filePath, fileSize, _lastModified): the content (or a miss) and the
\* cache afterwards.
CacheGet(cs, path, fileSize, t) ==
  LET cached == Lookup(cs.map, path)
  IN IF path \notin CachedPaths(cs.map)
       THEN [hit |-> FALSE, content |-> "", cache |-> cs]
     ELSE IF t - cached.timestamp > cs.ttl \/ cached.size # fileSize
       THEN [hit |-> FALSE, content |-> "", cache |-> CacheDelete(cs, path)]
     ELSE LET touched == [cached EXCEPT !.timestamp = t,
                                        !.accessCount = cached.accessCount + 1]
          IN [hit |-> TRUE, content |-> cached.content,
              cache |-> With(cs, Append(MapDelete(cs.map, path), touched), cs.usage)]

\* set(filePath, content, fileSize)
CacheSet(cs, path, content, fileSize, t, pressure) ==
  LET byteLength == FileByteLength(content)
      cleaned == IF pressure = "high" THEN EmergencyCleanup(cs, t) ELSE cs
      room == EvictOldest(cleaned)
  IN IF byteLength * 2 > MAX_FILE_SIZE /\ pressure # "low"
       THEN room
       ELSE With(room, MapSet(room.map, Entry(path, content, t, fileSize, 1)),
                       room.usage + byteLength)

\* clear()
CacheClear(cs) == With(cs, <<>>, 0)

\* One more step of the run.
Step == nOps < MaxOps /\ nOps' = nOps + 1

\* --- the cache, called directly
\* The contents and sizes the cache is called with; "LARGE" is a content
\* of more than half of MAX_FILE_SIZE.
CacheContents == {"", "a", "LARGE"}
Sizes == {1, 2}

\* What is kept of the call before: the method, its arguments and its hit.
Call(op, path, content, size, hit) ==
  [op |-> op, path |-> path, content |-> content, size |-> size, hit |-> hit]
NoCall == Call("none", "p1", "", 0, FALSE)

\* The record of a call: the method, its arguments, its hit (what get and
\* delete returned; for set, whether the cache had spare capacity and
\* memory pressure was low), the content get returned, whether the call
\* removed an entry of its path (for set: whether its path was cached when
\* it was called), and the call before it.
CacheOp(op, path, content, size, hit, removed, prev) ==
  [op |-> op, path |-> path, content |-> content, size |-> size, hit |-> hit,
   removed |-> removed, prev |-> prev]

\* The call that cacheOp records, as the next call's prev.
LastCall ==
  Call(cacheOp.op, cacheOp.path, cacheOp.content, cacheOp.size, cacheOp.hit)

\* One more call.
CacheStep == nOps < MaxCacheCalls /\ nOps' = nOps + 1

\* A step of the cache leaves the disk alone.
CacheOnly == UNCHANGED <<disk, fileOp, agentVars, toolVars, helperVars, adaptVars>>

\* fileCache.set(filePath, content, fileSize)
CacheSetCall(path, content, size, pressure) ==
  /\ CacheStep
  /\ cache' = CacheSet(cache, path, content, size, now, pressure)
  /\ cacheOp' = CacheOp("set", path, content, size,
                        Len(cache.map) < cache.maxSize /\ pressure = "low",
                        path \in CachedPaths(cache.map), LastCall)
  /\ UNCHANGED now
  /\ CacheOnly

\* fileCache.get(filePath, fileSize, lastModified); lastModified is not read.
CacheGetCall(path, size, lastModified) ==
  LET g == CacheGet(cache, path, size, now)
  IN /\ CacheStep
     /\ cache' = g.cache
     /\ cacheOp' = CacheOp("get", path, g.content, size, g.hit,
                           path \in CachedPaths(cache.map) /\ ~g.hit,
                           LastCall)
     /\ UNCHANGED now
     /\ CacheOnly

\* fileCache.delete(filePath)
CacheDeleteCall(path) ==
  /\ CacheStep
  /\ cache' = CacheDelete(cache, path)
  /\ cacheOp' = CacheOp("delete", path, "", 0, path \in CachedPaths(cache.map),
                        path \in CachedPaths(cache.map), LastCall)
  /\ UNCHANGED now
  /\ CacheOnly

\* fileCache.clear()
CacheClearCall ==
  /\ CacheStep
  /\ cache' = CacheClear(cache)
  /\ cacheOp' = CacheOp("clear", "p1", "", 0, FALSE, cache.map # <<>>, LastCall)
  /\ UNCHANGED now
  /\ CacheOnly

\* The cache's timer: cleanupExpired(), then checkAndUpdateConfig(), which
\* calls emergencyCleanup() when the configuration changed and memory
\* pressure is high.
CacheTimer(emergency) ==
  /\ CacheStep
  /\ cache' = IF emergency
                THEN EmergencyCleanup(CleanupExpired(cache, now), now)
                ELSE CleanupExpired(cache, now)
  /\ cacheOp' = CacheOp("timer", "p1", "", 0, FALSE, cache' # cache, LastCall)
  /\ UNCHANGED now
  /\ CacheOnly

\* Time passes between two calls.
CacheTick ==
  /\ CacheStep
  /\ now < MaxClock
  /\ now' = now + 1
  /\ cacheOp' = CacheOp("tick", "p1", "", 0, FALSE, FALSE, LastCall)
  /\ UNCHANGED cache
  /\ CacheOnly

CacheNext ==
  \/ \E p \in Paths, c \in CacheContents, z \in Sizes, m \in Pressures :
       CacheSetCall(p, c, z, m)
  \/ \E p \in Paths, z \in Sizes, t \in {0, 1} : CacheGetCall(p, z, t)
  \/ \E p \in Paths : CacheDeleteCall(p)
  \/ CacheClearCall
  \/ \E e \in BOOLEAN : CacheTimer(e)
  \/ CacheTick

\* --- the cache over its lifetime
\* new AdaptiveFileCache(1): a cache of fewer entries than there are paths.
CacheConstruct ==
  /\ cacheOp.op = "none"
  /\ cache.maxSize # 1
  /\ cache' = NewCache(1, CacheTtl)
  /\ UNCHANGED <<now, nOps, cacheOp>>
  /\ CacheOnly

\* The timer fires, however many calls went before: cleanupExpired(), then
\* checkAndUpdateConfig(), which calls emergencyCleanup() when the
\* configuration changed and memory pressure is high.
TimerFires(emergency) ==
  /\ cache' = IF emergency
                THEN EmergencyCleanup(CleanupExpired(cache, now), now)
                ELSE CleanupExpired(cache, now)
  /\ cacheOp' = CacheOp("timer", "p1", "", 0, FALSE, cache' # cache, LastCall)
  /\ UNCHANGED <<now, nOps>>
  /\ CacheOnly

\* Time passes, however many calls went before.
TimePasses ==
  /\ now < MaxClock
  /\ now' = now + 1
  /\ cacheOp' = CacheOp("tick", "p1", "", 0, FALSE, FALSE, LastCall)
  /\ UNCHANGED <<cache, nOps>>
  /\ CacheOnly

\* A call of the cache, while the calls followed last.
LifeCall ==
  /\ nOps < MaxLifeCalls
  /\ \/ \E p \in Paths, m \in {"low", "high"} : CacheSetCall(p, "a", 1, m)
     \/ \E p \in Paths : CacheGetCall(p, 1, 0)
     \/ \E p \in Paths : CacheDeleteCall(p)
     \/ CacheClearCall

LifeNext ==
  \/ CacheConstruct
  \/ LifeCall
  \/ \E e \in BOOLEAN : TimerFires(e)
  \/ TimePasses


\* --- the cache's eviction order
\* A cache of three entries, called with three paths.
LruMaxSize == 3
LruPaths == {"p1", "p2", "p3"}

\* When each path was last inserted or hit (the number of the call, 0 for
\* never) after the last call (used) and before it (was); what the last
\* call was and whether it hit; and, for a set, the paths its capacity
\* eviction removed (evicted) and those it left (kept).
Lru(op, path, hit, used, was, evicted, kept) ==
  [op |-> op, path |-> path, hit |-> hit, used |-> used, was |-> was,
   evicted |-> evicted, kept |-> kept]
NoLru == Lru("none", "p1", FALSE, [p \in LruPaths |-> 0], [p \in LruPaths |-> 0], {}, {})

\* One more call.
LruStep == nOps < MaxLruCalls /\ nOps' = nOps + 1

LruOnly == UNCHANGED <<disk, now, fileOp, cacheOp, config, reading, agentVars, toolVars, helperVars>>

\* new AdaptiveFileCache(3)
LruConstruct ==
  /\ lru.op = "none"
  /\ cache.maxSize # LruMaxSize
  /\ cache' = NewCache(LruMaxSize, CacheTtl)
  /\ UNCHANGED <<nOps, lru>>
  /\ LruOnly

\* cache.set(filePath, content, fileSize) while memory pressure is low
LruSet(path) ==
  LET room == EvictOldest(cache)
  IN /\ LruStep
     /\ cache.maxSize = LruMaxSize
     /\ cache' = CacheSet(cache, path, "a", 1, now, "low")
     /\ lru' = Lru("set", path, FALSE, [lru.used EXCEPT ![path] = nOps + 1], lru.used,
                   CachedPaths(cache.map) \ CachedPaths(room.map),
                   CachedPaths(room.map))
     /\ LruOnly

\* cache.get(filePath, fileSize)
LruGet(path) ==
  LET g == CacheGet(cache, path, 1, now)
  IN /\ LruStep
     /\ cache.maxSize = LruMaxSize
     /\ cache' = g.cache
     /\ lru' = Lru("get", path, g.hit,
                   IF g.hit THEN [lru.used EXCEPT ![path] = nOps + 1] ELSE lru.used,
                   lru.used, {}, {})
     /\ LruOnly

LruNext ==
  \/ LruConstruct
  \/ \E p \in LruPaths : LruSet(p)
  \/ \E p \in LruPaths : LruGet(p)


\* --- the adaptive configuration
\* Memory is counted in MB and time in units of 30 seconds.
\* os.totalmem()
TotalMemory == 1000
\* MEMORY_CHECK_INTERVAL = 30 * 1000
MEMORY_CHECK_INTERVAL == 1
\* os.freemem(), as the host has it from time to time: memory pressures of
\* 10, 68, 72 and 90 percent.
Frees == {900, 320, 280, 100}

Least(a, b) == IF a <= b THEN a ELSE b
Distance(a, b) == IF a >= b THEN a - b ELSE b - a

\* 1 - freeMemory / totalMemory > tenths / 10
PressureAbove(free, tenths) == 10 * (TotalMemory - free) > tenths * TotalMemory

\* The memory pressure as set sees it.
PressureOf(free) ==
  IF PressureAbove(free, 8) THEN "high"
  ELSE IF PressureAbove(free, 6) THEN "raised"
  ELSE "low"

\* getAdaptiveConfig(): the fields the cache and its timer read.
GetAdaptiveConfig(free) ==
  [MAX_FILE_SIZE |-> Least(Least(TotalMemory \div 10, 100), Max(10, free \div 20)),
   CACHE_SIZE |-> Least(Max(10, free), 200),
   CACHE_TTL |-> IF PressureAbove(free, 7) THEN 4
                 ELSE IF PressureAbove(free, 5) THEN 10
                 ELSE 20,
   MEMORY_PRESSURE_THRESHOLD |-> 8]

\* The module's state: FILE_CONFIG, lastMemoryCheck, the host's free
\* memory now and at the last evaluation of the memory pressure
\* (freeAtCheck); and of the last step: what it was, whether it evaluated
\* the memory pressure and left another FILE_CONFIG than it found, the time
\* since the evaluation before it, the free memory at that evaluation
\* (freeBefore), and, for a get, whether it hit and the age of the entry it
\* found.
Config(loaded, fileConfig, lastMemoryCheck, free, freeAtCheck, step) ==
  [loaded |-> loaded, FILE_CONFIG |-> fileConfig, lastMemoryCheck |-> lastMemoryCheck,
   free |-> free, freeAtCheck |-> freeAtCheck, op |-> step.op,
   evaluated |-> step.evaluated, replaced |-> step.replaced, elapsed |-> step.elapsed,
   freeBefore |-> step.freeBefore, hit |-> step.hit, age |-> step.age]
ConfigStep(op, evaluated, replaced, elapsed, freeBefore, hit, age) ==
  [op |-> op, evaluated |-> evaluated, replaced |-> replaced, elapsed |-> elapsed,
   freeBefore |-> freeBefore, hit |-> hit, age |-> age]
NotLoaded ==
  Config(FALSE, GetAdaptiveConfig(900), 0, 900, 900,
         ConfigStep("none", FALSE, FALSE, 0, 900, FALSE, 0))

\* What a step that is no timer tick leaves in config.
Stepped(op, hit, age) ==
  [config EXCEPT !.op = op, !.evaluated = FALSE, !.replaced = FALSE, !.elapsed = 0,
                 !.freeBefore = config.freeAtCheck, !.hit = hit, !.age = age]

\* memoryPressureChange > 0.1, where memoryPressureChange is
\* |1 - free / total - (1 - (total - FILE_CONFIG.MAX_FILE_SIZE) / total)|
PressureChanged(cfg, free) ==
  10 * Distance(TotalMemory - free, cfg.MAX_FILE_SIZE) > TotalMemory

\* checkAndUpdateConfig(): FILE_CONFIG and lastMemoryCheck afterwards,
\* and whether it called emergencyCleanup().
CheckAndUpdateConfig(c, t) ==
  IF t - c.lastMemoryCheck > MEMORY_CHECK_INTERVAL
    THEN LET currentConfig == GetAdaptiveConfig(c.free)
             replaces == PressureChanged(c.FILE_CONFIG, c.free)
             applied == IF replaces THEN currentConfig ELSE c.FILE_CONFIG
         IN [FILE_CONFIG |-> applied, lastMemoryCheck |-> t, evaluated |-> TRUE,
             replaced |-> replaces,
             emergency |-> replaces /\ PressureAbove(c.free, applied.MEMORY_PRESSURE_THRESHOLD)]
    ELSE [FILE_CONFIG |-> c.FILE_CONFIG, lastMemoryCheck |-> c.lastMemoryCheck,
          evaluated |-> FALSE, replaced |-> FALSE, emergency |-> FALSE]

ConfigOnly == UNCHANGED <<disk, fileOp, cacheOp, lru, reading, agentVars, toolVars, helperVars>>

\* The module is loaded: FILE_CONFIG = getAdaptiveConfig(), lastMemoryCheck
\* = Date.now(), fileCache = new AdaptiveFileCache().
ModuleLoads(free) ==
  LET fileConfig == GetAdaptiveConfig(free)
  IN /\ ~config.loaded
     /\ config' = Config(TRUE, fileConfig, now, free, free,
                         ConfigStep("load", TRUE, TRUE, 0, free, FALSE, 0))
     /\ cache' = NewCache(fileConfig.CACHE_SIZE, fileConfig.CACHE_TTL)
     /\ UNCHANGED <<now, nOps>>
     /\ ConfigOnly

\* The host's free memory changes.
MemoryChanges(free) ==
  /\ config.loaded
  /\ free # config.free
  /\ config' = [Stepped("memory", FALSE, 0) EXCEPT !.free = free]
  /\ UNCHANGED <<cache, now, nOps>>
  /\ ConfigOnly

\* Thirty seconds pass.
ConfigTick ==
  /\ config.loaded
  /\ now < MaxConfigClock
  /\ now' = now + 1
  /\ config' = Stepped("tick", FALSE, 0)
  /\ UNCHANGED <<cache, nOps>>
  /\ ConfigOnly

\* The timer of a cache fires: cleanupExpired(), then
\* checkAndUpdateConfig().
ConfigTimer ==
  LET r == CheckAndUpdateConfig(config, now)
      cleaned == CleanupExpired(cache, now)
  IN /\ config.loaded
     /\ cache' = IF r.emergency THEN EmergencyCleanup(cleaned, now) ELSE cleaned
     /\ config' = [config EXCEPT !.FILE_CONFIG = r.FILE_CONFIG,
                                 !.lastMemoryCheck = r.lastMemoryCheck,
                                 !.op = "timer", !.evaluated = r.evaluated,
                                 !.replaced = r.FILE_CONFIG # config.FILE_CONFIG,
                                 !.elapsed = now - config.lastMemoryCheck,
                                 !.freeAtCheck = IF r.evaluated THEN config.free
                                                 ELSE config.freeAtCheck,
                                 !.freeBefore = config.freeAtCheck,
                                 !.hit = FALSE, !.age = 0]
     /\ UNCHANGED <<now, nOps>>
     /\ ConfigOnly

\* fileCache.set(filePath, content, fileSize)
ConfigSet(path) ==
  /\ config.loaded
  /\ nOps < MaxConfigCalls
  /\ nOps' = nOps + 1
  /\ cache' = CacheSet(cache, path, "a", 1, now, PressureOf(config.free))
  /\ config' = Stepped("set", FALSE, 0)
  /\ UNCHANGED now
  /\ ConfigOnly

\* fileCache.get(filePath, fileSize) of a cached path
ConfigGet(path) ==
  LET g == CacheGet(cache, path, 1, now)
  IN /\ config.loaded
     /\ nOps < MaxConfigCalls
     /\ path \in CachedPaths(cache.map)
     /\ nOps' = nOps + 1
     /\ cache' = g.cache
     /\ config' = Stepped("get", g.hit, now - Lookup(cache.map, path).timestamp)
     /\ UNCHANGED now
     /\ ConfigOnly

ConfigNext ==
  \/ \E f \in Frees : ModuleLoads(f)
  \/ \E f \in Frees : MemoryChanges(f)
  \/ ConfigTick
  \/ ConfigTimer
  \/ \E p \in Paths : ConfigSet(p)
  \/ \E p \in Paths : ConfigGet(p)


\* --- file-operations.ts
\* What an operation comes to: it returns a result or throws a
\* FileOperationError.
FileResult(threw, success, content) ==
  [threw |-> threw, success |-> success, content |-> content]

\* streamLargeFile(filePath)
StreamLargeFile(file, pressure) ==
  IF pressure = "high" \/ FileByteLength(file.content) > MAX_FILE_SIZE * 2
    THEN FileResult(TRUE, FALSE, "")
    ELSE FileResult(FALSE, TRUE, file.content)

\* readFileOptimized(filePath): the result and the cache afterwards. A
\* cached content that is the empty string counts as a miss (if
\* (cachedContent)).
ReadFileOptimized(file, cs, path, t, pressure, io) ==
  IF ~file.exists \/ io = "fails"
    THEN [result |-> FileResult(TRUE, FALSE, ""), cache |-> cs]
  ELSE LET size == FileByteLength(file.content)
           got == CacheGet(cs, path, size, t)
       IN IF got.hit /\ got.content # ""
            THEN [result |-> FileResult(FALSE, TRUE, got.content), cache |-> got.cache]
          ELSE IF size > MAX_FILE_SIZE
            THEN [result |-> StreamLargeFile(file, pressure), cache |-> got.cache]
            ELSE [result |-> FileResult(FALSE, TRUE, file.content),
                  cache |-> CacheSet(got.cache, path, file.content, size, t, pressure)]

\* The test with overwrite taken the wrong way round.
RefusesWhenOverwriting(fileExists, overwrite) == fileExists /\ overwrite

\* if (fileExists && !overwrite) return { success: false, ... }
Refuses(fileExists, overwrite) == fileExists /\ ~overwrite

\* A write that leaves the cache as it is.
WriteFileKeepsCache(file, cs, path, content, overwrite, t, io) ==
  IF Refuses(file.exists, overwrite)
    THEN [result |-> FileResult(FALSE, FALSE, ""), file |-> file, cache |-> cs]
  ELSE IF io = "write"
    THEN [result |-> FileResult(TRUE, FALSE, ""), file |-> file, cache |-> cs]
  ELSE [result |-> IF io = "stat" THEN FileResult(TRUE, FALSE, "")
                                  ELSE FileResult(FALSE, TRUE, ""),
        file |-> File(content, t),
        cache |-> cs]

\* writeFileOptimized(filePath, content, overwrite) as write_file calls it
\* (createBackup is left at its default, false): the result, the file and
\* the cache afterwards. io tells which call fails, if any: "write" stands
\* for mkdir or writeFile, "stat" for the stat after the write.
WriteFileOptimized(file, cs, path, content, overwrite, t, io) ==
  LET fileExists == file.exists
  IN IF Refuses(fileExists, overwrite)
       THEN [result |-> FileResult(FALSE, FALSE, ""), file |-> file, cache |-> cs]
     ELSE IF io = "write"
       THEN [result |-> FileResult(TRUE, FALSE, ""), file |-> file, cache |-> cs]
     ELSE [result |-> IF io = "stat" THEN FileResult(TRUE, FALSE, "")
                                     ELSE FileResult(FALSE, TRUE, ""),
           file |-> File(content, t),
           cache |-> CacheDelete(cs, path)]

\* The record of a step: the operation, what it was asked and what it
\* returned; note tells what the step found or followed.
FileOp(op, path, overwrite, result, note) ==
  [op |-> op, path |-> path, overwrite |-> overwrite, result |-> result,
   note |-> note]

\* For a write: whether the cache held the path when the write began.
WriteNote(path) ==
  IF path \in CachedPaths(cache.map) THEN "cached" ELSE ""

\* For a read: whether it is the next operation after a write to the same
\* path that returned success, and whether that write found the path cached.
ReadNote(path) ==
  IF fileOp.op = "write" /\ fileOp.path = path /\ fileOp.result.success
    THEN IF fileOp.note = "cached" THEN "after write over cached" ELSE "after write"
    ELSE ""

FileInit ==
  /\ nOps = 0
  /\ disk = [p \in Paths |-> IF p = "p1" THEN File("a", 0) ELSE NoFile]
  /\ cache = CacheState(<<>>, 0)
  /\ now = 0
  /\ fileOp = FileOp("none", "p1", FALSE, FileResult(FALSE, FALSE, ""), "")
  /\ cacheOp = CacheOp("none", "p1", "", 0, FALSE, FALSE, NoCall)

ReadFile(path, pressure, io) ==
  LET r == ReadFileOptimized(disk[path], cache, path, now, pressure, io)
  IN /\ Step
     /\ cache' = r.cache
     /\ fileOp' = FileOp("read", path, FALSE, r.result, ReadNote(path))
     /\ UNCHANGED <<disk, now, cacheOp, agentVars, toolVars, helperVars, adaptVars>>

WriteFile(path, content, overwrite, io) ==
  LET w == WriteFileOptimized(disk[path], cache, path, content, overwrite, now, io)
  IN /\ Step
     /\ disk' = [disk EXCEPT ![path] = w.file]
     /\ cache' = w.cache
     /\ fileOp' = FileOp("write", path, overwrite, w.result, WriteNote(path))
     /\ UNCHANGED <<now, cacheOp, agentVars, toolVars, helperVars, adaptVars>>

\* Another process writes or removes a file.
ExternalChange(path, file) ==
  /\ Step
  /\ file # disk[path]
  /\ disk' = [disk EXCEPT ![path] = file]
  /\ fileOp' = FileOp("external", path, FALSE, FileResult(FALSE, FALSE, ""), "")
  /\ UNCHANGED <<cache, now, cacheOp, agentVars, toolVars, helperVars, adaptVars>>

\* The two-minute timer of the cache: cleanupExpired().
CleanupTimer ==
  /\ Step
  /\ cache' = CleanupExpired(cache, now)
  /\ cache' # cache
  /\ fileOp' = FileOp("cleanup", "p1", FALSE, FileResult(FALSE, FALSE, ""), "")
  /\ UNCHANGED <<disk, now, cacheOp, agentVars, toolVars, helperVars, adaptVars>>

\* Time passes.
Tick ==
  /\ Step
  /\ now < MaxClock
  /\ now' = now + 1
  /\ fileOp' = FileOp("tick", "p1", FALSE, FileResult(FALSE, FALSE, ""), "")
  /\ UNCHANGED <<disk, cache, cacheOp, agentVars, toolVars, helperVars, adaptVars>>

FileNext ==
  \/ \E p \in Paths, m \in Pressures, io \in {"ok", "fails"} : ReadFile(p, m, io)
  \/ \E p \in Paths, c \in Contents, o \in BOOLEAN, io \in {"ok", "write", "stat"} :
       WriteFile(p, c, o, io)
  \/ \E p \in Paths, c \in Contents : ExternalChange(p, File(c, now))
  \/ \E p \in Paths : ExternalChange(p, NoFile)
  \/ CleanupTimer
  \/ Tick

\* --- file-operations.ts: streamLargeFile, chunk by chunk
\* The chunks the stream delivers: one of MAX_FILE_SIZE bytes and one of a
\* single byte.
StreamChunks == {"big", "s"}
ChunkLength(c) == IF c = "big" THEN MAX_FILE_SIZE ELSE 1

RECURSIVE TotalLength(_)
TotalLength(cs) == IF cs = <<>> THEN 0 ELSE ChunkLength(Head(cs)) + TotalLength(Tail(cs))

\* The promise: pending, or settled as resolved (with the content, a
\* sequence of chunks) or rejected (with the operation of the
\* FileOperationError).
Promise(settled, value) == [settled |-> settled, value |-> value]

\* A promise that a later resolve or reject settles again.
SettleAgain(p, settled, value) == Promise(settled, value)

\* resolve(value) or reject(error): the first call settles the promise, a
\* later one changes nothing.
Settle(p, settled, value) ==
  IF p.settled = "pending" THEN Promise(settled, value) ELSE p

\* A call of streamLargeFile: the stream (idle, flowing, destroyed, ended
\* or errored), chunks and totalSize, the promise; and as history the
\* memory pressure seen with each chunk and how often resolve or reject
\* was called.
Reading(phase, chunks, totalSize, promise, seen, settles) ==
  [phase |-> phase, chunks |-> chunks, totalSize |-> totalSize, promise |-> promise,
   seen |-> seen, settles |-> settles]
NoReading == Reading("idle", <<>>, 0, Promise("pending", <<>>), <<>>, 0)

StreamOnly == UNCHANGED <<fileVars, lru, config, agentVars, toolVars, helperVars>>

\* createReadStream(filePath, ...) and the three handlers are attached.
StreamCreated ==
  /\ reading.phase = "idle"
  /\ reading' = [reading EXCEPT !.phase = "flowing"]
  /\ StreamOnly

\* stream.on('data'): the chunk is kept and counted; memory pressure above
\* the threshold or more than 2 * MAX_FILE_SIZE bytes destroy the stream
\* and reject. A chunk that was on its way when the stream was destroyed
\* may still be handed to the handler.
OnData(chunk, pressure) ==
  LET chunks == Append(reading.chunks, chunk)
      totalSize == reading.totalSize + ChunkLength(chunk)
      aborts == pressure = "high" \/ totalSize > MAX_FILE_SIZE * 2
  IN /\ reading.phase \in {"flowing", "destroyed"}
     /\ Len(reading.chunks) < MaxStreamChunks
     /\ reading' = Reading(IF aborts THEN "destroyed" ELSE reading.phase,
                           chunks, totalSize,
                           IF aborts THEN Settle(reading.promise, "rejected", "read")
                                     ELSE reading.promise,
                           Append(reading.seen, pressure),
                           reading.settles + (IF aborts THEN 1 ELSE 0))
     /\ StreamOnly

\* stream.on('end'): resolve(Buffer.concat(chunks).toString('utf8')). An
\* end that was on its way when the stream was destroyed may still arrive.
OnEnd ==
  /\ reading.phase \in {"flowing", "destroyed"}
  /\ reading' = [reading EXCEPT !.phase = "ended",
                                !.promise = Settle(reading.promise, "resolved", reading.chunks),
                                !.settles = reading.settles + 1]
  /\ StreamOnly

\* stream.on('error'): reject with a 'read' FileOperationError.
OnError ==
  /\ reading.phase = "flowing"
  /\ reading' = [reading EXCEPT !.phase = "errored",
                                !.promise = Settle(reading.promise, "rejected", "read"),
                                !.settles = reading.settles + 1]
  /\ StreamOnly

StreamNext ==
  \/ StreamCreated
  \/ \E c \in StreamChunks, m \in Pressures : OnData(c, m)
  \/ OnEnd
  \/ OnError


\* --- file-operations.ts: traverseDirectory and searchFilesByPattern
\* What `x || d` gives for an optional number: <<>> is undefined, <<n>> is n.
OrDefault(opt, d) == IF opt = <<>> \/ opt[1] = 0 THEN d ELSE opt[1]

DefaultMaxDepth == 10
DefaultMaxResults == 50

\* The files and directories that may exist, as paths relative to the root.
FilePaths ==
  {<<"a.ts">>, <<"b.js">>, <<"cats">>, <<".x.ts">>,
   <<"sub", "c.ts">>, <<"sub", "in", "A.TS">>, <<"sub", ".d", "c.ts">>}
DirPaths == {<<"sub">>, <<"sub", "in">>, <<"sub", ".d">>}
AllPaths == FilePaths \cup DirPaths

\* The order in which fs.readdir lists names.
DirOrder == <<"a.ts", "sub", "b.js", "cats", ".x.ts", ".d", "c.ts", "in", "A.TS">>

\* A name as its characters.
Chars(name) ==
  CASE name = "a.ts" -> <<"a", ".", "t", "s">>
    [] name = "b.js" -> <<"b", ".", "j", "s">>
    [] name = "cats" -> <<"c", "a", "t", "s">>
    [] name = ".x.ts" -> <<".", "x", ".", "t", "s">>
    [] name = "c.ts" -> <<"c", ".", "t", "s">>
    [] name = "A.TS" -> <<"A", ".", "T", "S">>
    [] name = "sub" -> <<"s", "u", "b">>
    [] name = "in" -> <<"i", "n">>
    [] name = ".d" -> <<".", "d">>

\* The lower-case form of a character.
Lower(c) ==
  CASE c = "A" -> "a"
    [] c = "T" -> "t"
    [] c = "S" -> "s"
    [] OTHER -> c

ParentOf(p) == SubSeq(p, 1, Len(p) - 1)
\* path.basename(filePath)
BaseName(p) == p[Len(p)]
\* A test that finds no name hidden.
NeverHidden(name) == FALSE

\* item.name.startsWith('.')
Hidden(name) == Head(Chars(name)) = "."

\* path.extname(item.name): from the last dot, "" when the name has none or
\* only a leading one.
ExtName(name) ==
  LET cs == Chars(name)
      dots == {i \in 2..Len(cs) : cs[i] = "."}
  IN IF dots = {} THEN <<>>
     ELSE LET last == CHOOSE i \in dots : \A j \in dots : j <= i
          IN SubSeq(cs, last, Len(cs))

\* fs.readdir(currentPath): the names of the directory's entries.
Items(t, dir) == SelectSeq(DirOrder, LAMBDA n : Append(dir, n) \in t)

\* pattern.replace(/\*/g, '.*')
RECURSIVE RegexPattern(_)
RegexPattern(pattern) ==
  IF pattern = <<>> THEN <<>>
  ELSE IF Head(pattern) = "*" THEN <<".", "*">> \o RegexPattern(Tail(pattern))
  ELSE <<Head(pattern)>> \o RegexPattern(Tail(pattern))

\* new RegExp(regexPattern, flags), for sources made of letters, '.' and
\* '.*': the atoms of the expression, each a character ('.' is any
\* character) that may be starred.
RECURSIVE NewRegExp(_)
NewRegExp(source) ==
  IF source = <<>> THEN <<>>
  ELSE IF Len(source) >= 2 /\ source[2] = "*"
    THEN <<[ch |-> source[1], star |-> TRUE]>> \o NewRegExp(SubSeq(source, 3, Len(source)))
  ELSE <<[ch |-> source[1], star |-> FALSE]>> \o NewRegExp(Tail(source))

AtomMatches(atom, c, ignoreCase) ==
  \/ atom.ch = "."
  \/ IF ignoreCase THEN Lower(atom.ch) = Lower(c) ELSE atom.ch = c

\* Whether the expression matches at the start of s.
RECURSIVE MatchHere(_, _, _)
MatchHere(atoms, s, ignoreCase) ==
  IF atoms = <<>> THEN TRUE
  ELSE IF Head(atoms).star
    THEN \/ MatchHere(Tail(atoms), s, ignoreCase)
         \/ /\ s # <<>>
            /\ AtomMatches(Head(atoms), Head(s), ignoreCase)
            /\ MatchHere(atoms, Tail(s), ignoreCase)
  ELSE /\ s # <<>>
       /\ AtomMatches(Head(atoms), Head(s), ignoreCase)
       /\ MatchHere(Tail(atoms), Tail(s), ignoreCase)

\* regex.test(filename): a match anywhere in the name.
RegexTest(atoms, s, ignoreCase) ==
  \E k \in 0..Len(s) : MatchHere(atoms, SubSeq(s, k + 1, Len(s)), ignoreCase)

\* A DirectoryVisitor.  kind "record" is a visitor that notes every call and
\* never stops; kind "pattern" is the visitor of searchFilesByPattern.
Visitor(kind, maxDepth, includeHidden, fileExtensions, pattern, options) ==
  [kind |-> kind, maxDepth |-> maxDepth, includeHidden |-> includeHidden,
   fileExtensions |-> fileExtensions, pattern |-> pattern,
   caseSensitive |-> options.caseSensitive, maxResults |-> options.maxResults,
   includeDirectories |-> options.includeDirectories]

\* The options of searchFilesByPattern other than fileExtensions.
Options(maxResults, caseSensitive, includeDirectories) ==
  [maxResults |-> maxResults, caseSensitive |-> caseSensitive,
   includeDirectories |-> includeDirectories]
NoOptions == Options(<<>>, FALSE, FALSE)

\* What a traversal has done so far: the calls made (readdir, visitFile,
\* visitDirectory), with a "returned false" after a callback that returned
\* false, and the visitor's results.
Walked(evs, found) == [events |-> evs, results |-> found]
Event(what, path) == [what |-> what, path |-> path]
Noted(acc, what, path) == Walked(Append(acc.events, Event(what, path)), acc.results)
Visit(acc, continue) == [acc |-> acc, continue |-> continue]

PatternTest(v, path) ==
  RegexTest(NewRegExp(RegexPattern(v.pattern)), Chars(BaseName(path)), ~v.caseSensitive)

\* A visitFile that pushes every match, however many there are already.
VisitFileUncapped(v, acc, path) ==
  LET seen == Noted(acc, "visitFile", path)
  IN IF v.kind = "pattern" /\ PatternTest(v, path)
       THEN Visit(Walked(seen.events, Append(seen.results, path)), TRUE)
       ELSE Visit(seen, TRUE)

\* visitor.visitFile(itemPath, relativePath, stats)
VisitFile(v, acc, path) ==
  LET seen == Noted(acc, "visitFile", path)
  IN IF v.kind = "record" THEN Visit(seen, TRUE)
     ELSE IF Len(acc.results) >= OrDefault(v.maxResults, DefaultMaxResults)
       THEN Visit(Noted(seen, "returned false", path), FALSE)
     ELSE IF PatternTest(v, path)
       THEN Visit(Walked(seen.events, Append(seen.results, path)), TRUE)
     ELSE Visit(seen, TRUE)

\* visitor.visitDirectory(itemPath, relativePath); failing holds the paths
\* whose stat or readdir fails.
VisitDirectory(v, acc, path, failing) ==
  LET seen == Noted(acc, "visitDirectory", path)
  IN IF v.kind = "record" THEN Visit(seen, TRUE)
     ELSE IF ~v.includeDirectories THEN Visit(seen, TRUE)
     ELSE IF Len(acc.results) >= OrDefault(v.maxResults, DefaultMaxResults)
       THEN Visit(Noted(seen, "returned false", path), FALSE)
     ELSE IF PatternTest(v, path) /\ path \notin failing
       THEN Visit(Walked(seen.events, Append(seen.results, path)), TRUE)
     ELSE Visit(seen, TRUE)

\* traverseRecursive(currentPath, depth) and its loop over the items.
RECURSIVE TraverseRecursive(_, _, _, _, _, _)
RECURSIVE ForItems(_, _, _, _, _, _, _)
TraverseRecursive(t, failing, v, currentPath, depth, acc) ==
  IF depth > OrDefault(v.maxDepth, DefaultMaxDepth) THEN acc
  ELSE IF currentPath \in failing THEN Noted(acc, "readdir", currentPath)
  ELSE ForItems(t, failing, v, Items(t, currentPath), currentPath, depth,
                Noted(acc, "readdir", currentPath))

ForItems(t, failing, v, items, currentPath, depth, acc) ==
  IF items = <<>> THEN acc
  ELSE
    LET name == Head(items)
        itemPath == Append(currentPath, name)
        next(a) == ForItems(t, failing, v, Tail(items), currentPath, depth, a)
    IN IF ~v.includeHidden /\ Hidden(name) THEN next(acc)
       ELSE IF itemPath \in FilePaths
         THEN IF v.fileExtensions # {} /\ ExtName(name) \notin v.fileExtensions
                THEN next(acc)
              ELSE IF itemPath \in failing THEN next(acc)
              ELSE LET r == VisitFile(v, acc, itemPath)
                   IN IF r.continue THEN next(r.acc) ELSE r.acc
       ELSE LET r == VisitDirectory(v, acc, itemPath, failing)
            IN IF r.continue
                 THEN next(TraverseRecursive(t, failing, v, itemPath, depth + 1, r.acc))
                 ELSE r.acc

\* traverseDirectory(rootPath, visitor)
TraverseDirectory(t, failing, v) ==
  TraverseRecursive(t, failing, v, <<>>, 0, Walked(<<>>, <<>>))

\* searchFilesByPattern(directoryPath, pattern, options)
SearchFilesByPattern(t, failing, pattern, fileExtensions, options) ==
  TraverseDirectory(t, failing,
    Visitor("pattern", <<DefaultMaxDepth>>, FALSE, fileExtensions, pattern, options))

Patterns ==
  {<<"*", ".", "t", "s">>, <<"*", ".", "T", "S">>, <<"a", "*">>,
   <<"c", ".", "t", "s">>, <<"t", "s">>, <<"*">>}
ExtensionFilters == {{}, {<<".", "t", "s">>}}
Failures == {{}, {<<"sub">>}, {<<"sub", "c.ts">>}}

\* The record of a call: what was asked and what came of it.
Walk(op, visitor, failing, out) ==
  [op |-> op, visitor |-> visitor, failing |-> failing,
   events |-> out.events, results |-> out.results]
NoWalk ==
  Walk("none", Visitor("record", <<>>, FALSE, {}, <<>>, NoOptions), {},
       Walked(<<>>, <<>>))

\* null, and a value that is there.
Null == <<>>
Some(x) == <<x>>

\* The stat promise of an item that has not settled yet.
Pending == [name |-> "", type |-> "pending", size |-> Null, last_modified |-> Null]

\* The file a call of isLikelyBinary looks at: its name's extension, its
\* size in bytes and the positions (from 1) of its null bytes.
ProbedFile(ext, size, nulls) == [ext |-> ext, size |-> size, nulls |-> nulls]
Probe(op, file, io, binary) == [op |-> op, file |-> file, io |-> io, binary |-> binary]
NoProbe == Probe("none", ProbedFile("", 0, {}), "ok", FALSE)

\* A number n / d, d > 0.
Rat(n, d) == <<n, d>>
Scored(op, query, target, caseSensitive, score) ==
  [op |-> op, query |-> query, target |-> target,
   caseSensitive |-> caseSensitive, score |-> score]
NoScore == Scored("none", <<>>, <<>>, FALSE, Rat(0, 1))

\* new HistoryManager(): maxHistory defaults to 10.
DefaultMaxHistory == 10

\* The conversation: the HistoryManager's fields, the number of requests
\* made so far, and for the last step what it was, the history it found
\* and the history it handed to the agent.
Chat(op, conversationHistory, maxHistory, asked, before, handed) ==
  [op |-> op, conversationHistory |-> conversationHistory,
   maxHistory |-> maxHistory, asked |-> asked, before |-> before,
   handed |-> handed]
NewChat == Chat("new", <<>>, DefaultMaxHistory, 0, <<>>, <<>>)

Listing(phase, includeHidden, items, settled, order, failed, result) ==
  [phase |-> phase, includeHidden |-> includeHidden, items |-> items,
   settled |-> settled, order |-> order, failed |-> failed, result |-> result]
DirectoryListing(success, contents, total) ==
  [success |-> success, contents |-> contents, total_items |-> total]
NoListing ==
  Listing("idle", FALSE, <<>>, <<>>, <<>>, {}, DirectoryListing(FALSE, <<>>, 0))

HelperInit ==
  /\ tree = {}
  /\ walk = NoWalk
  /\ listing = NoListing
  /\ probe = NoProbe
  /\ scored = NoScore
  /\ chat = NewChat

WalkOnly == UNCHANGED <<agentVars, toolVars, fileVars, adaptVars, listing, probe, scored, chat>>

\* Something creates a file or a directory under the root.
MakeEntry(p) ==
  /\ walk.op = "none"
  /\ listing.phase = "idle"
  /\ p \notin tree
  /\ Len(p) = 1 \/ ParentOf(p) \in tree
  /\ tree' = tree \cup {p}
  /\ UNCHANGED walk
  /\ WalkOnly

\* A caller traverses the tree with a visitor that notes what it is shown.
Traverse(maxDepth, includeHidden, fileExtensions, failing) ==
  LET v == Visitor("record", maxDepth, includeHidden, fileExtensions, <<>>, NoOptions)
  IN /\ walk.op = "none"
     /\ walk' = Walk("traverse", v, failing, TraverseDirectory(tree, failing, v))
     /\ UNCHANGED tree
     /\ WalkOnly

\* A caller searches the tree by pattern.
SearchFiles(pattern, fileExtensions, options, failing) ==
  /\ walk.op = "none"
  /\ walk' = Walk("search",
                  Visitor("pattern", <<DefaultMaxDepth>>, FALSE, fileExtensions,
                          pattern, options),
                  failing,
                  SearchFilesByPattern(tree, failing, pattern, fileExtensions, options))
  /\ UNCHANGED tree
  /\ WalkOnly

\* The largest max_results a call of the search_files tool asks for.
MaxAskedResults == 3

\* What searchFilesTool.invoke answers without fuzzy_search: the results
\* of searchFilesByPattern, their number and the truncated flag; or, for
\* arguments the schema refuses, the failure of the catch block.
ToolAnswer(success, out, truncated) ==
  [success |-> success, events |-> out.events, results |-> out.results,
   total_found |-> Len(out.results), truncated |-> truncated]

\* searchFilesTool.invoke with fuzzy_search false.  max_results is the
\* argument after the schema's default; the schema refuses one below 1.
SearchFilesToolInvoke(pattern, fileExtensions, max_results, cs, dirs, failing) ==
  LET options == Options(<<OrDefault(<<max_results>>, DefaultMaxResults)>>, cs, dirs)
      v == Visitor("pattern", <<DefaultMaxDepth>>, FALSE, fileExtensions, pattern, options)
      out == SearchFilesByPattern(tree, failing, pattern, fileExtensions, options)
      asked == [op |-> "tool", visitor |-> v, failing |-> failing, max_results |-> max_results]
  IN /\ walk.op = "none"
     /\ walk' = IF max_results < 1
                   THEN asked @@ ToolAnswer(FALSE, Walked(<<>>, <<>>), FALSE)
                   ELSE asked @@ ToolAnswer(TRUE, out,
                          Len(out.results) >= OrDefault(<<max_results>>, DefaultMaxResults))
     /\ UNCHANGED tree
     /\ WalkOnly

\* The caller has its answer.
WalkReturned ==
  /\ walk.op # "none"
  /\ walk' = NoWalk
  /\ UNCHANGED tree
  /\ WalkOnly

WalkNext ==
  \/ \E p \in AllPaths : MakeEntry(p)
  \/ \E d \in {<<>>, <<0>>, <<1>>, <<2>>}, h \in BOOLEAN, x \in ExtensionFilters,
        f \in Failures : Traverse(d, h, x, f)
  \/ \E pat \in Patterns, x \in ExtensionFilters, m \in {<<>>, <<1>>, <<2>>},
        cs \in BOOLEAN, dirs \in BOOLEAN, f \in {{}, {<<"sub">>}} :
       SearchFiles(pat, x, Options(m, cs, dirs), f)
  \/ \E pat \in Patterns, x \in ExtensionFilters, m \in 0..MaxAskedResults,
        cs \in BOOLEAN, dirs \in BOOLEAN :
       SearchFilesToolInvoke(pat, x, m, cs, dirs, {})
  \/ WalkReturned

\* --- file-operations.ts: listDirectoryOptimized
\* item.isDirectory() ? 'directory' : 'file'
TypeOf(name) == IF <<name>> \in DirPaths THEN "directory" ELSE "file"

\* stats.size of an entry of the root (the sizes themselves are arbitrary).
StatSize(name) == Len(Chars(name))

\* What the async callback of an item resolves to: the full record when
\* fs.stat succeeded, the basic one when it threw.
ItemRecord(name, statOk) ==
  IF statOk
    THEN [name |-> name, type |-> TypeOf(name),
          size |-> IF TypeOf(name) = "file" THEN Some(StatSize(name)) ELSE Null,
          last_modified |-> Some("mtime")]
    ELSE [name |-> name, type |-> TypeOf(name), size |-> Null, last_modified |-> Null]

\* includeHidden ? items : items.filter(item => !item.name.startsWith('.'))
FilteredItems(t, includeHidden) ==
  IF includeHidden THEN Items(t, <<>>)
  ELSE SelectSeq(Items(t, <<>>), LAMBDA n : ~Hidden(n))

\* The values of the promises in the order in which they settled.
ContentsAsSettled(settled, order) == [k \in 1..Len(order) |-> settled[order[k]]]

\* Promise.allSettled(...).filter(fulfilled).map(value): the values in the
\* order of the items; every callback catches its own failure, so every
\* promise is fulfilled.
SuccessfulContents(settled, order) == settled

ListOnly == UNCHANGED <<agentVars, toolVars, fileVars, adaptVars, tree, walk, probe, scored, chat>>

\* listDirectoryOptimized(directoryPath, includeHidden) up to the start of
\* the stat calls; readdir "fails" makes it throw a FileOperationError.
ListDirectory(includeHidden, readdir) ==
  /\ listing.phase = "idle"
  /\ walk.op = "none"
  /\ listing' =
       IF readdir = "fails"
         THEN Listing("thrown", includeHidden, <<>>, <<>>, <<>>, {},
                      DirectoryListing(FALSE, <<>>, 0))
         ELSE LET items == FilteredItems(tree, includeHidden)
              IN Listing("stat", includeHidden, items,
                         [i \in 1..Len(items) |-> Pending], <<>>, {},
                         DirectoryListing(FALSE, <<>>, 0))
  /\ ListOnly

\* The stat of one item comes back, in any order.
StatSettles(i, statOk) ==
  /\ listing.phase = "stat"
  /\ i \in 1..Len(listing.items)
  /\ listing.settled[i] = Pending
  /\ listing' = [listing EXCEPT
                   !.settled[i] = ItemRecord(listing.items[i], statOk),
                   !.order = Append(@, i),
                   !.failed = IF statOk THEN @ ELSE @ \cup {i}]
  /\ ListOnly

\* All promises have settled: the listing is returned.
ListingReturns ==
  /\ listing.phase = "stat"
  /\ \A i \in 1..Len(listing.items) : listing.settled[i] # Pending
  /\ LET successfulContents == SuccessfulContents(listing.settled, listing.order)
     IN listing' = [listing EXCEPT
                      !.phase = "returned",
                      !.result = DirectoryListing(TRUE, successfulContents,
                                                  Len(successfulContents))]
  /\ ListOnly

\* The caller has its answer.
ListingTaken ==
  /\ listing.phase \in {"returned", "thrown"}
  /\ listing' = NoListing
  /\ ListOnly

ListNext ==
  \/ \E p \in {q \in AllPaths : Len(q) = 1} : MakeEntry(p)
  \/ \E h \in BOOLEAN, r \in {"ok", "fails"} : ListDirectory(h, r)
  \/ \E i \in 1..Len(DirOrder), ok \in BOOLEAN : StatSettles(i, ok)
  \/ ListingReturns
  \/ ListingTaken

\* --- file-operations.ts: isLikelyBinary
VeryLargeSize == 104857600
MaxSampleSize == 1024

binaryExtensions ==
  {".exe", ".dll", ".so", ".dylib", ".bin", ".dat", ".jpg", ".jpeg", ".png",
   ".gif", ".webp", ".bmp", ".ico", ".mp3", ".mp4", ".avi", ".mov", ".wav",
   ".flac", ".zip", ".tar", ".gz", ".rar", ".7z", ".pdf", ".doc", ".docx",
   ".xls", ".xlsx", ".ppt", ".pptx", ".woff", ".woff2", ".ttf", ".otf", ".eot"}

Extensions == {".png", ".PNG", ".ts", ""}

\* ext.toLowerCase(), for the extensions above.
ExtToLowerCase(ext) == IF ext = ".PNG" THEN ".png" ELSE ext

Min(a, b) == IF a <= b THEN a ELSE b

\* A sample that is only the first byte.
FirstByteHasNull(file) == 1 \in file.nulls

\* The loop over the sample: a null byte among the first
\* Math.min(1024, stats.size) bytes.
SampleHasNull(file) ==
  \E i \in file.nulls : i <= Min(MaxSampleSize, file.size)

\* isLikelyBinary(filePath) for a file that exists; io tells which call, if
\* any, throws: fs.stat, fs.open, fd.read or fd.close.  Whatever is thrown
\* is caught at line 274 and the answer is false; a failing fd.close in the
\* finally block replaces a `return true` of the loop.
IsLikelyBinary(file, io) ==
  IF io = "stat" THEN FALSE
  ELSE IF file.size > VeryLargeSize THEN TRUE
  ELSE IF ExtToLowerCase(file.ext) \in binaryExtensions THEN TRUE
  ELSE IF file.size > 0
    THEN IF io \in {"open", "read", "close"} THEN FALSE
         ELSE SampleHasNull(file)
  ELSE FALSE

FileSizes ==
  {0, 1, MaxSampleSize, MaxSampleSize + 1, VeryLargeSize, VeryLargeSize + 1}
NullPositions == {1, MaxSampleSize, MaxSampleSize + 1}
ProbedFiles ==
  {ProbedFile(x, z, n) : x \in Extensions, z \in FileSizes,
                         n \in SUBSET NullPositions} \ 
  {f \in [ext : Extensions, size : FileSizes, nulls : SUBSET NullPositions] :
     \E i \in f.nulls : i > f.size}
IoFailures == {"ok", "stat", "open", "read", "close"}

IsLikelyBinaryCall(file, io) ==
  /\ probe' = Probe("isLikelyBinary", file, io, IsLikelyBinary(file, io))
  /\ UNCHANGED <<agentVars, toolVars, fileVars, adaptVars, tree, walk, listing, scored, chat>>

BinaryNext == \E f \in ProbedFiles, io \in IoFailures : IsLikelyBinaryCall(f, io)

\* --- file-operations.ts: calculateFuzzyScore
RatEq(x, y) == x[1] * y[2] = y[1] * x[2]
RatLess(x, y) == x[1] * y[2] < y[1] * x[2]
RatMin(x, y) == IF RatLess(y, x) THEN y ELSE x

Alphabet == {"a", "A", "."}
Strings(n) == UNION {[1..k -> Alphabet] : k \in 0..n}

\* s.toLowerCase()
ToLowerCase(s) == [i \in 1..Len(s) |-> Lower(s[i])]

\* An includes that finds nothing.
NeverIncludes(t, q) == FALSE

\* t.includes(q)
Includes(t, q) ==
  \E k \in 0..(Len(t) - Len(q)) : SubSeq(t, k + 1, k + Len(q)) = q

Min3(a, b, c) == Min(a, Min(b, c))

\* The row dp[i] of levenshteinDistance from the row dp[i-1] (prev); row
\* holds dp[i][0..j-1] and c is str1[i-1].
RECURSIVE NextRow(_, _, _, _)
NextRow(prev, c, str2, row) ==
  IF Len(row) = Len(str2) + 1 THEN row
  ELSE LET j == Len(row)
       IN NextRow(prev, c, str2,
                  Append(row, IF c = str2[j] THEN prev[j]
                              ELSE Min3(prev[j + 1] + 1, row[j] + 1, prev[j] + 1)))

RECURSIVE Rows(_, _, _, _)
Rows(str1, str2, i, prev) ==
  IF i > Len(str1) THEN prev
  ELSE Rows(str1, str2, i + 1, NextRow(prev, str1[i], str2, <<i>>))

\* levenshteinDistance(str1, str2)
LevenshteinDistance(str1, str2) ==
  Rows(str1, str2, 1, [j \in 1..(Len(str2) + 1) |-> j - 1])[Len(str2) + 1]

\* The loop of lines 458-463: the characters of q found in t in sequence.
RECURSIVE SequenceMatches(_, _, _, _)
SequenceMatches(t, q, i, queryIndex) ==
  IF i > Len(t) \/ queryIndex > Len(q) THEN queryIndex - 1
  ELSE IF t[i] = q[queryIndex] THEN SequenceMatches(t, q, i + 1, queryIndex + 1)
  ELSE SequenceMatches(t, q, i + 1, queryIndex)

\* The separators of t.split(/[\s\-_.]/).
WordBreaks == {" ", "-", "_", "."}

\* Whether some word of t.split(...) starts with the prefix: the prefix
\* stands in t at the start of a word and holds no separator.
SomeWordStartsWith(t, prefix) ==
  \/ prefix = <<>>
  \/ \E k \in 1..Len(t) :
       /\ k = 1 \/ t[k - 1] \in WordBreaks
       /\ k + Len(prefix) - 1 <= Len(t)
       /\ SubSeq(t, k, k + Len(prefix) - 1) = prefix
       /\ \A i \in 1..Len(prefix) : prefix[i] \notin WordBreaks

\* calculateFuzzyScore(query, target, caseSensitive), as a fraction: the
\* bonuses are tenths, the similarity a fraction of maxLen.
CalculateFuzzyScore(query, target, caseSensitive) ==
  LET q == IF caseSensitive THEN query ELSE ToLowerCase(query)
      t == IF caseSensitive THEN target ELSE ToLowerCase(target)
      maxLen == Max(Len(q), Len(t))
      distance == LevenshteinDistance(q, t)
      sequenceTenths == SequenceMatches(t, q, 1, 1)
      boundaryTenths ==
        IF SomeWordStartsWith(t, SubSeq(q, 1, Min(3, Len(q)))) THEN 2 ELSE 0
  IN IF q = t THEN Rat(1, 1)
     ELSE IF Includes(t, q) THEN Rat(9 * Len(q), 10 * Len(t))
     ELSE IF maxLen = 0 THEN Rat(1, 1)
     ELSE RatMin(Rat(1, 1),
                 Rat(10 * (maxLen - distance) + (sequenceTenths + boundaryTenths) * maxLen,
                     10 * maxLen))

ScoreOnly == UNCHANGED <<agentVars, toolVars, fileVars, adaptVars, tree, walk, listing, probe, chat>>

CalculateFuzzyScoreCall(query, target, caseSensitive) ==
  /\ scored.op = "none"
  /\ scored' = Scored("score", query, target, caseSensitive,
                      CalculateFuzzyScore(query, target, caseSensitive))
  /\ ScoreOnly

\* --- file-operations.ts: fuzzySearchFiles, the body of the loop for one item
\* path.relative(resolvedPath, itemPath) and path.dirname of it, for an
\* item of the root (directory <<>>) or of a directory of the root.
RelativePath(directory, filename) ==
  IF directory = <<>> THEN filename ELSE directory \o <<"/">> \o filename
DirName(directory) == IF directory = <<>> THEN <<".">> ELSE directory

\* score * tenths / 10
Scaled(score, tenths) == Rat(tenths * score[1], 10 * score[2])
RatMax(x, y) == IF RatLess(x, y) THEN y ELSE x

\* FILE_CONFIG.FUZZY_SEARCH_THRESHOLD, and the tool's `args.min_score || 0.3`.
MinScore == Rat(3, 10)

\* The match_type given to a result (lines 538-545).
MatchType(query, filename, filenameScore, pathScore) ==
  IF RatEq(filenameScore, Rat(1, 1)) \/ RatEq(pathScore, Rat(1, 1)) THEN "exact"
  ELSE IF RatLess(Rat(8, 10), filenameScore)
          \/ Includes(ToLowerCase(filename), ToLowerCase(query))
    THEN "substring"
  ELSE IF RatLess(filenameScore, pathScore) THEN "path"
  ELSE "fuzzy"

\* What the loop makes of a file: nothing (a hidden name, a score under
\* min_score, a stat that fails) or a result with its score and match_type.
Candidate(op, query, directory, filename, caseSensitive, pushed, score, match_type) ==
  [op |-> op, query |-> query, directory |-> directory, filename |-> filename,
   relative_path |-> RelativePath(directory, filename),
   caseSensitive |-> caseSensitive, pushed |-> pushed, score |-> score,
   match_type |-> match_type]

FuzzySearchItem(query, directory, filename, caseSensitive, statFails) ==
  LET filenameScore == CalculateFuzzyScore(query, filename, caseSensitive)
      directoryScore ==
        Scaled(CalculateFuzzyScore(query, DirName(directory), caseSensitive), 7)
      pathScore ==
        Scaled(CalculateFuzzyScore(query, RelativePath(directory, filename),
                                   caseSensitive), 9)
      bestScore == RatMax(filenameScore, RatMax(directoryScore, pathScore))
      skipped == /\ Head(filename) = "."
                 /\ ~(query # <<>> /\ Head(query) = ".")
      pushed == ~skipped /\ ~RatLess(bestScore, MinScore) /\ ~statFails
  IN /\ scored.op = "none"
     /\ scored' = Candidate("item", query, directory, filename, caseSensitive, pushed,
                            bestScore,
                            IF pushed THEN MatchType(query, filename, filenameScore, pathScore)
                            ELSE "none")
     /\ ScoreOnly

\* The file names and the directories of the candidates, and the queries:
\* short strings and the candidates' relative paths.
FileNames == {<<"a">>, <<"A">>, <<".", "a">>, <<"a", ".">>, <<"a", "a">>, <<"a", "A">>}
Directories == {<<>>, <<"a">>}
Queries ==
  FileNames \cup {<<".">>}
    \cup {RelativePath(d, f) : d \in Directories \ {<<>>}, f \in FileNames}

\* The caller has the score.
ScoreReturned ==
  /\ scored.op # "none"
  /\ scored' = NoScore
  /\ ScoreOnly

FuzzyNext ==
  \/ \E q \in Strings(MaxQueryLen), t \in Strings(MaxTargetLen), cs \in BOOLEAN :
       CalculateFuzzyScoreCall(q, t, cs)
  \/ \E q \in Queries, d \in Directories, f \in FileNames, cs \in BOOLEAN,
        statFails \in BOOLEAN :
       FuzzySearchItem(q, d, f, cs, statFails)
  \/ ScoreReturned

\* --- HistoryManager and startConversation
\* A message of the history; the content is named by the number of the
\* request it belongs to.
ChatMessage(role, n) == [role |-> role, content |-> n]

\* array.slice(-n): the last n elements, the whole array when n is 0 or
\* more than its length.
SliceLast(arr, n) ==
  IF n = 0 THEN arr ELSE SubSeq(arr, Max(1, Len(arr) - n + 1), Len(arr))

\* HistoryManager.getRecent()
GetRecent(conversationHistory, maxHistory) == SliceLast(conversationHistory, maxHistory)

ChatOnly ==
  UNCHANGED <<agentVars, toolVars, fileVars, adaptVars, tree, walk, listing, probe, scored>>

\* CLIManager.initialize(): setMaxHistory(config.max_conversation_history || 10);
\* <<>> is a configuration without the setting.
Initialize(setting) ==
  /\ chat.op = "new"
  /\ chat' = [chat EXCEPT !.op = "initialize",
                          !.maxHistory = OrDefault(setting, DefaultMaxHistory)]
  /\ ChatOnly

\* One round of startConversation's loop for a request: the recent history
\* is handed to run(); when the run answers, the request and the answer
\* are added to the history, when it throws nothing is.
Ask(answers) ==
  LET n == chat.asked + 1
      recentHistory == GetRecent(chat.conversationHistory, chat.maxHistory)
  IN /\ chat.op # "new"
     /\ chat.asked < MaxAsked
     /\ chat' = Chat("ask",
                     IF answers
                       THEN chat.conversationHistory
                              \o <<ChatMessage("user", n), ChatMessage("assistant", n)>>
                       ELSE chat.conversationHistory,
                     chat.maxHistory, n, chat.conversationHistory, recentHistory)
     /\ ChatOnly

\* The command 'clear'.
ClearHistory ==
  /\ chat.op # "new"
  /\ chat.conversationHistory # <<>>
  /\ chat' = [chat EXCEPT !.op = "clear", !.conversationHistory = <<>>]
  /\ ChatOnly

ChatNext ==
  \/ \E n \in {<<>>} \cup {<<k>> : k \in 1..MaxAsked} : Initialize(n)
  \/ \E a \in BOOLEAN : Ask(a)
  \/ ClearHistory

\* ------------------------------------------------------ reading the history
\* The ids of a list of tool calls, in order.
CallIds(calls) == [i \in 1..Len(calls) |-> calls[i].id]

IsToolRequest(m) == m.role = "assistant" /\ Len(m.tool_calls) > 0

\* The assistant tool-call messages of a message list: one per tool round.
ToolRequests(msgs) == SelectSeq(msgs, IsToolRequest)

\* Whether msgs[p+1 .. p+n] are the tool messages answering calls, in order.
AnsweredAt(msgs, p, calls) ==
  /\ p + Len(calls) <= Len(msgs)
  /\ \A i \in 1..Len(calls) :
       /\ msgs[p + i].role = "tool"
       /\ msgs[p + i].tool_call_id = calls[i].id
  /\ (p + Len(calls) < Len(msgs)) => msgs[p + Len(calls) + 1].role # "tool"

\* The tool round that is being executed: its request is the last message
\* in blocking mode and is not in the list yet in streaming mode.
ExecutingTools == pc = "tools" \/ (pc = "failed" /\ thrown.cause = "tool threw")

\* C1: in a non-streaming run every assistant message with n tool calls is
\* directly followed by exactly n tool messages, the i-th carrying the id of
\* the i-th call (the round in execution has none yet).
C1_ResultsFollowCalls ==
  ~stream =>
    \A p \in 1..Len(messages) :
      IsToolRequest(messages[p]) =>
        IF ExecutingTools /\ p = Len(messages)
          THEN TRUE
          ELSE AnsweredAt(messages, p, messages[p].tool_calls)

\* A finished non-streaming run with two rounds, one of them with two calls
\* of which one failed.
C1_Witness ==
  /\ ~stream
  /\ pc = "done"
  /\ round = 2
  /\ \E p \in 1..Len(messages) :
       /\ Len(messages[p].tool_calls) = 2
       /\ messages[p + 1].content = ToolOutput
       /\ messages[p + 2].content # ToolOutput

\* The events of tool round r (0-based) that report a result.
IsResultEvent(e) == e.cid # 0 /\ e.type # "tool_call_item"
ResultEventsOf(r) == SelectSeq(events, LAMBDA e : IsResultEvent(e) /\ e.rnd = r)
EventCids(es) == [i \in 1..Len(es) |-> es[i].cid]

RECURSIVE FlattenIds(_)
FlattenIds(reqs) ==
  IF reqs = <<>> THEN <<>> ELSE CallIds(Head(reqs).tool_calls) \o FlattenIds(Tail(reqs))

ExecIds == [i \in 1..Len(execLog) |-> execLog[i].id]

IsPrefix(a, b) == Len(a) <= Len(b) /\ SubSeq(b, 1, Len(a)) = a

\* C2: in streaming mode, for every completed tool round the result events
\* are one per call, in call order, after every started event of the round
\* and before any event of the follow-up stream; the executed ids are the
\* calls of the rounds in order, each once.
C2_StreamingOrder ==
  stream =>
    /\ \A r \in 1..Len(ToolRequests(messages)) :
         EventCids(ResultEventsOf(r - 1)) = CallIds(ToolRequests(messages)[r].tool_calls)
    /\ \A i \in 1..Len(events), j \in 1..Len(events) :
         /\ (i < j) => events[i].rnd <= events[j].rnd
         /\ (/\ events[i].rnd = events[j].rnd
             /\ events[i].type = "tool_call_item"
             /\ IsResultEvent(events[j])) => i < j
    /\ \A i \in 1..Len(execLog), j \in 1..Len(execLog) :
         (i # j) => execLog[i].id # execLog[j].id
    /\ IsPrefix(FlattenIds(ToolRequests(messages)), ExecIds)
    /\ IsPrefix(SubSeq(ExecIds, Len(FlattenIds(ToolRequests(messages))) + 1, Len(ExecIds)),
                CallIds(pending))

\* A round with two calls has completed and the follow-up stream has
\* delivered text.
C2_Witness ==
  /\ stream
  /\ round = 1
  /\ Len(ResultEventsOf(0)) = 2
  /\ \E i \in 1..Len(events) : events[i].rnd = 1 /\ events[i].type = "output_text_delta"

\* The text deltas forwarded for the model's text (not about a tool call).
ForwardedText ==
  LET es == SelectSeq(events, LAMBDA e : e.type = "output_text_delta" /\ e.cid = 0)
  IN [i \in 1..Len(es) |-> es[i].delta]

\* C3: every non-empty text delta received from the model is forwarded to
\* the consumer with the same content, also beyond the 50 KB cap.
C3_EveryDeltaForwarded == stream => ForwardedText = received

\* C4: a failure of a run reaches the caller as a ProviderError that names
\* the provider in use.
C4_FailureIsProviderError ==
  (pc = "failed") => (thrown.kind = "ProviderError" /\ thrown.provider = ProviderName)

\* The calls of the last tool round whose results are in msgs, with what
\* their invoke did.
OutcomeOf(id) == (CHOOSE e \in {execLog[i] : i \in 1..Len(execLog)} : e.id = id).outcome

FailedBody(text) ==
  LET b == JsonParse(text) IN b.ok /\ ~b.success /\ b.error # ""

\* C5: a call to an unregistered tool, or one whose invoke throws, never
\* fails the run: it gets a result with its own id and a {success:false,
\* error} body, the other calls of the response are executed too, and every
\* later request carries one tool message per call of the round.
C5_ToolFailuresAreResults ==
  /\ thrown.cause # "tool threw"
  /\ \A i \in 1..Len(results) :
       /\ results[i].toolCallId = pending[i].id
       /\ (OutcomeOf(pending[i].id) \in {"throws", "unknown"}) =>
            (~results[i].success /\ FailedBody(results[i].response))
  /\ \A k \in 1..Len(sent) :
       \A p \in 1..Len(sent[k]) :
         IsToolRequest(sent[k][p]) =>
           /\ AnsweredAt(sent[k], p, sent[k][p].tool_calls)
           /\ \A i \in 1..Len(sent[k][p].tool_calls) :
                (OutcomeOf(sent[k][p].tool_calls[i].id) \in {"throws", "unknown"}) =>
                   FailedBody(sent[k][p + i].content)

\* A request was sent after a round in which an unregistered tool was asked
\* for first and a tool that threw came after it.
C5_Witness ==
  /\ Len(sent) >= 2
  /\ \E p \in 1..Len(sent[Len(sent)]) :
       LET m == sent[Len(sent)][p]
       IN /\ Len(m.tool_calls) >= 2
          /\ OutcomeOf(m.tool_calls[1].id) = "unknown"
          /\ OutcomeOf(m.tool_calls[2].id) = "throws"

\* C8 as stated: a non-streaming run returns after rounds + 1 requests, on
\* a response without tool calls, with that response's text as its output.
C8_OutputIsResponseText ==
  (~stream /\ pc = "done") =>
    /\ lastResponse.tool_calls = <<>>
    /\ Len(sent) = round + 1
    /\ finalOutput = lastResponse.content

Terminated == pc \in {"done", "failed"}

\* C8, amended: as above, but the output is the placeholder 'No response
\* generated' when the response's text is empty or absent; and a run whose
\* model stops asking for tools terminates.
C8_ReturnsOnToolFreeResponse ==
  /\ [](~stream =>
         /\ (pc = "done") <=>
              (lastResponse.role = "assistant" /\ lastResponse.tool_calls = <<>>)
         /\ (pc = "done") =>
              /\ Len(sent) = round + 1
              /\ finalOutput = IF Falsy(lastResponse.content)
                                 THEN <<"No response generated">>
                                 ELSE lastResponse.content)
  /\ ((pc = "create" /\ ~stream) ~> Terminated)

\* A run that returned after two tool rounds with an empty final text.
C8_Witness ==
  /\ ~stream
  /\ pc = "done"
  /\ round = 2
  /\ lastResponse.content = EmptyText

RECURSIVE RoundsFrom(_, _)
\* msgs from position p on: tool rounds, each a request and its answers.
RoundsFrom(msgs, p) ==
  IF p > Len(msgs) THEN TRUE
  ELSE /\ IsToolRequest(msgs[p])
       /\ AnsweredAt(msgs, p, msgs[p].tool_calls)
       /\ RoundsFrom(msgs, p + Len(msgs[p].tool_calls) + 1)

WellOrdered(msgs) ==
  LET h == Len(given.history)
  IN /\ Len(msgs) >= h + 2
     /\ msgs[1] = Msg("system", Instructions)
     /\ \A i \in 2..Len(msgs) : msgs[i].role # "system"
     /\ SubSeq(msgs, 2, h + 1) = given.history
     /\ msgs[h + 2] = Msg("user", given.input)
     /\ RoundsFrom(msgs, h + 3)

\* C9: every message list sent to the model is the system message, the
\* given history in order, the user message, then per completed round the
\* assistant tool-call message and its tool messages; each list sent is a
\* strict prefix of the next one.
C9_MessageOrder ==
  \A k \in 1..Len(sent) :
    /\ WellOrdered(sent[k])
    /\ Len(ToolRequests(sent[k])) = k - 1
    /\ (k < Len(sent)) =>
         (Len(sent[k]) < Len(sent[k + 1]) /\ IsPrefix(sent[k], sent[k + 1]))

\* A streaming turn with a history has sent its third request.
C9_Witness ==
  /\ stream
  /\ Len(sent) = 3
  /\ given.history # <<>>

\* ------------------------------------------------------ the tools' contract
\* The input names no arguments object, or the object lacks an argument
\* the tool declares as required.
MalformedOrMissing ==
  \/ toolCall.input.kind # "object"
  \/ \E p \in Required[toolCall.tool] : Prop(toolCall.input, p) = "absent"

\* C6: for every registered tool and every input, invoke resolves, its
\* result parses as a JSON object with a boolean success, and success is
\* false whenever the input is malformed, names no object or lacks a
\* required argument.
C6_InvokeAlwaysAnswers ==
  toolCall.tool # "none" =>
    /\ toolReply.resolved
    /\ JsonParse(toolReply.text).ok
    /\ MalformedOrMissing => ~JsonParse(toolReply.text).success

\* write_file was given valid arguments and the write failed: the failure
\* came back as a result.
C6_Witness ==
  /\ toolCall.tool = "write_file"
  /\ ~MalformedOrMissing
  /\ toolCall.fs = "fails"
  /\ toolReply.performed
  /\ toolReply.resolved
  /\ ~JsonParse(toolReply.text).success

\* C7 (as stated): an arguments object with an undeclared property is
\* answered with {success:false, error} and the file operation is not
\* performed.
C7_UndeclaredPropertiesRejected ==
  (toolCall.tool # "none" /\ Prop(toolCall.input, "extra") # "absent") =>
    /\ ~JsonParse(toolReply.text).success
    /\ ~toolReply.performed

C11_ReadAfterWriteIsFresh ==
  /\ (fileOp.op = "write" /\ fileOp.result.success)
       => /\ fileOp.path \notin CachedPaths(cache.map)
          /\ disk[fileOp.path].exists
  /\ (/\ fileOp.op = "read"
      /\ fileOp.note \in {"after write", "after write over cached"}
      /\ ~fileOp.result.threw)
       => /\ fileOp.result.success
          /\ fileOp.result.content = disk[fileOp.path].content

\* A read returned right after a write that replaced a cached file.
C11_Witness ==
  /\ fileOp.op = "read"
  /\ fileOp.note = "after write over cached"
  /\ fileOp.result.success
  /\ fileOp.result.content = "b"

\* ------------------------------------------------------ the cache contract
\* C12: a get that comes directly after a set of the same path with the
\* same size, the set having found spare capacity and low memory
\* pressure, returns the content that was set (whatever lastModified it
\* is given).
C12_SetThenGet ==
  (/\ cacheOp.op = "get"
   /\ cacheOp.prev.op = "set"
   /\ cacheOp.prev.path = cacheOp.path
   /\ cacheOp.prev.size = cacheOp.size
   /\ cacheOp.prev.hit)
    => /\ cacheOp.hit
       /\ cacheOp.content = cacheOp.prev.content

\* A large content was set at low memory pressure and got back.
C12_Witness ==
  /\ cacheOp.op = "get"
  /\ cacheOp.prev.op = "set"
  /\ cacheOp.prev.path = cacheOp.path
  /\ cacheOp.prev.hit
  /\ cacheOp.hit
  /\ cacheOp.content = "LARGE"
  /\ Len(cache.map) = 2

\* C13: a get that comes directly after delete(p) or clear() reports
\* absent for p, and delete(p) leaves the entries of the other paths, and
\* their order, as they were.
C13_DeleteThenGet ==
  /\ [](/\ cacheOp.op = "get"
        /\ \/ cacheOp.prev.op = "clear"
           \/ cacheOp.prev.op = "delete" /\ cacheOp.prev.path = cacheOp.path
        => ~cacheOp.hit)
  /\ [][cacheOp'.op = "delete" =>
          /\ cacheOp'.path \notin CachedPaths(cache'.map)
          /\ \A q \in Paths \ {cacheOp'.path} :
               Lookup(cache'.map, q) = Lookup(cache.map, q)
          /\ cache'.map = SelectSeq(cache.map, LAMBDA e : e.path # cacheOp'.path)]_vars

\* An entry that had been set was deleted and then asked for, while the
\* entry of the other path is still cached.
C13_Witness ==
  /\ cacheOp.op = "get"
  /\ cacheOp.prev.op = "delete"
  /\ cacheOp.prev.path = cacheOp.path
  /\ cacheOp.prev.hit
  /\ ~cacheOp.hit
  /\ CachedPaths(cache.map) = Paths \ {cacheOp.path}

\* C14: get returns the entry's content exactly when an entry of the path
\* exists, the time since its last access is within the TTL and its size is
\* the size asked for; an entry that fails the test is removed, and the
\* get after a miss of the same path misses too.
C14_GetChecksAgeAndSize ==
  /\ [][cacheOp'.op = "get" =>
          LET p == cacheOp'.path
              e == Lookup(cache.map, p)
              exists == p \in CachedPaths(cache.map)
              fresh == now - e.timestamp <= cache.ttl /\ e.size = cacheOp'.size
          IN /\ cacheOp'.hit <=> (exists /\ fresh)
             /\ cacheOp'.hit => cacheOp'.content = e.content
             /\ (exists /\ ~fresh) => p \notin CachedPaths(cache'.map)
             /\ \A q \in Paths \ {p} : Lookup(cache'.map, q) = Lookup(cache.map, q)]_vars
  /\ [](/\ cacheOp.op = "get"
        /\ cacheOp.prev.op = "get"
        /\ cacheOp.prev.path = cacheOp.path
        /\ ~cacheOp.prev.hit
        => ~cacheOp.hit)

\* An entry set with one size was asked for with another: the get missed
\* and removed it.
C14_Witness ==
  /\ cacheOp.op = "get"
  /\ cacheOp.prev.op = "set"
  /\ cacheOp.prev.path = cacheOp.path
  /\ cacheOp.prev.size + 1 = cacheOp.size
  /\ ~cacheOp.hit
  /\ cacheOp.removed

\* ------------------------------------------------- the traversal contract
\* C15: a traversal with maxDepth = 0 shows its visitor only files that are
\* immediate entries of the root, and reads no directory but the root.
C15_DepthZeroStaysAtRoot ==
  (walk.op = "traverse" /\ walk.visitor.maxDepth = <<0>>)
    => \A i \in 1..Len(walk.events) :
         /\ walk.events[i].what = "visitFile" => Len(walk.events[i].path) = 1
         /\ walk.events[i].what = "readdir" => walk.events[i].path = <<>>

\* C17: a listing whose readdir succeeded returns success with one record
\* for every entry of the directory (every non-hidden one when hidden
\* entries are not asked for), in the order of the directory whatever the
\* order in which the stats came back; the records of the stats that
\* failed have null size and null last_modified, and total_items is the
\* number of records.
C17_ListingSurvivesStatFailures ==
  listing.phase = "returned" =>
    LET listed == SelectSeq(DirOrder,
                    LAMBDA n : <<n>> \in tree /\ (listing.includeHidden \/ ~Hidden(n)))
        contents == listing.result.contents
    IN /\ listing.result.success
       /\ Len(contents) = Len(listed)
       /\ \A i \in 1..Len(listed) :
            /\ contents[i].name = listed[i]
            /\ i \in listing.failed =>
                 contents[i].size = Null /\ contents[i].last_modified = Null
            /\ i \notin listing.failed => contents[i].last_modified # Null
       /\ listing.result.total_items = Len(contents)

\* Three entries were listed and a hidden one left out; the last entry's
\* stat came back first, one stat failed and one succeeded.
C17_Witness ==
  /\ listing.phase = "returned"
  /\ Len(listing.result.contents) = 3
  /\ <<".x.ts">> \in tree
  /\ ~listing.includeHidden
  /\ listing.order[1] = 3
  /\ listing.failed = {3}

\* What the claim's rules for "binary" see in a file.
Denylisted(file) == ExtToLowerCase(file.ext) \in binaryExtensions
NullInFirstBytes(file) ==
  \E i \in file.nulls : i <= MaxSampleSize /\ i <= file.size
SmallPlainText(file) ==
  file.nulls = {} /\ file.size < MaxSampleSize /\ ~Denylisted(file)

\* C18 as stated: every existing file is classified binary if its extension
\* is in the denylist, if it has a null byte among its first min(1024, size)
\* bytes or if it is larger than 100 MB, and a plain text file under 1024
\* bytes with another extension is classified non-binary.
C18_BinaryRules ==
  probe.op = "isLikelyBinary" =>
    /\ (Denylisted(probe.file) \/ NullInFirstBytes(probe.file)
          \/ probe.file.size > VeryLargeSize) => probe.binary
    /\ SmallPlainText(probe.file) => ~probe.binary

\* C18 amended: the size and extension rules hold when fs.stat succeeds,
\* the null-byte rule when the file can also be opened, read and closed
\* (and then nothing else makes a file binary);
\* when one of these calls fails before a rule has answered, the file is
\* classified non-binary.  A plain text file under 1024 bytes with an
\* extension outside the denylist is classified non-binary in every case.
C18_BinaryRulesWhenReadable ==
  probe.op = "isLikelyBinary" =>
    LET bySizeOrName == probe.file.size > VeryLargeSize \/ Denylisted(probe.file)
    IN /\ probe.io # "stat" /\ bySizeOrName => probe.binary
       /\ probe.io = "ok" /\ NullInFirstBytes(probe.file) => probe.binary
       /\ probe.io = "ok" /\ ~bySizeOrName =>
            (probe.binary <=> NullInFirstBytes(probe.file))
       /\ probe.io = "stat" => ~probe.binary
       /\ probe.io \in {"open", "read", "close"} /\ ~bySizeOrName => ~probe.binary
       /\ SmallPlainText(probe.file) => ~probe.binary

\* A file of more than 1024 bytes with a plain extension whose only null
\* byte is the 1024th was classified binary.
C18_Witness ==
  /\ probe.op = "isLikelyBinary"
  /\ probe.io = "ok"
  /\ probe.file = ProbedFile(".ts", MaxSampleSize + 1, {MaxSampleSize})
  /\ probe.binary

\* The strings as calculateFuzzyScore compares them.
Compared(str, caseSensitive) == IF caseSensitive THEN str ELSE ToLowerCase(str)
CharsOf(str) == {str[i] : i \in 1..Len(str)}
ProperSubstring(q, t) ==
  /\ Len(q) < Len(t)
  /\ \E k \in 0..(Len(t) - Len(q)) : \A i \in 1..Len(q) : t[k + i] = q[i]
ShareNoCharacter(q, t, caseSensitive) ==
  CharsOf(Compared(q, caseSensitive)) \cap CharsOf(Compared(t, caseSensitive)) = {}

\* C19: for a non-empty query q, the score of q against itself is 1; the
\* score of q against a target of which it is a proper substring is
\* 0.9 * |q| / |t|; and the score against a target that shares no
\* character with q is strictly below the score of q against itself and
\* against every target that contains it.
C19_FuzzyScoreRules ==
  (scored.op = "score" /\ scored.query # <<>>) =>
    /\ scored.target = scored.query => RatEq(scored.score, Rat(1, 1))
    /\ ProperSubstring(scored.query, scored.target) =>
         RatEq(scored.score, Rat(9 * Len(scored.query), 10 * Len(scored.target)))
    /\ ShareNoCharacter(scored.query, scored.target, scored.caseSensitive) =>
         \A t2 \in Strings(MaxTargetLen) :
           (t2 = scored.query \/ ProperSubstring(scored.query, t2)) =>
             RatLess(scored.score,
                     CalculateFuzzyScore(scored.query, t2, scored.caseSensitive))

\* A query of two characters was scored against a target of three that
\* shares none of them, and scored nothing.
C19_Witness ==
  /\ scored.op = "score"
  /\ Len(scored.query) = 2
  /\ Len(scored.target) = 3
  /\ ShareNoCharacter(scored.query, scored.target, scored.caseSensitive)
  /\ scored.score[1] = 0

\* The messages of the last n turns of a history, a turn being a user
\* message with the assistant's answer to it.
LastTurns(history, n) ==
  LET turns == {history[i].content : i \in 1..Len(history)}
      recent == {t \in turns : Cardinality({u \in turns : u >= t}) <= n}
  IN SelectSeq(history, LAMBDA m : m.content \in recent)

\* C20: the history handed to the agent for a request is the most recent
\* max_conversation_history turns of the conversation, in their order.
C20_HandsOverRecentTurns ==
  chat.op = "ask" => chat.handed = LastTurns(chat.before, chat.maxHistory)

\* A wildcard pattern against a whole name: '*' stands for any sequence of
\* characters, every other character for itself.
RECURSIVE WildcardMatch(_, _, _)
WildcardMatch(pattern, s, ignoreCase) ==
  IF pattern = <<>> THEN s = <<>>
  ELSE IF Head(pattern) = "*"
    THEN \/ WildcardMatch(Tail(pattern), s, ignoreCase)
         \/ s # <<>> /\ WildcardMatch(pattern, Tail(s), ignoreCase)
  ELSE /\ s # <<>>
       /\ IF ignoreCase THEN Lower(Head(pattern)) = Lower(Head(s))
                        ELSE Head(pattern) = Head(s)
       /\ WildcardMatch(Tail(pattern), Tail(s), ignoreCase)

\* The paths of the files a traversal showed its visitor, in order.
FilesVisited(evs) ==
  LET files == SelectSeq(evs, LAMBDA e : e.what = "visitFile")
  IN [i \in 1..Len(files) |-> files[i].path]

\* C16: a search for files returns, in traversal order and up to the cap on
\* results, exactly the files whose basename matches the wildcard pattern.
C16_SearchReturnsWildcardMatches ==
  (walk.op = "search" /\ ~walk.visitor.includeDirectories)
    => LET matching == SelectSeq(FilesVisited(walk.events),
                         LAMBDA p : WildcardMatch(walk.visitor.pattern,
                                                  Chars(BaseName(p)),
                                                  ~walk.visitor.caseSensitive))
           cap == OrDefault(walk.visitor.maxResults, DefaultMaxResults)
       IN walk.results = SubSeq(matching, 1, IF Len(matching) < cap THEN Len(matching) ELSE cap)

\* C21: whatever calls and timer ticks went before, the cache never holds
\* more entries than its capacity, and no path twice; a set of a path that
\* is already cached keeps to that capacity too.
C21_NeverOverCapacity ==
  /\ Len(cache.map) <= cache.maxSize
  /\ Cardinality(CachedPaths(cache.map)) = Len(cache.map)

\* A set of a path that was cached, called when the cache was full, left
\* the cache full.
C21_Witness ==
  /\ cacheOp.op = "set"
  /\ cache.maxSize = 1
  /\ cacheOp.removed
  /\ cacheOp.path \in CachedPaths(cache.map)
  /\ Len(cache.map) = cache.maxSize

\* C22: the capacity eviction of a set never removes an entry that was
\* inserted or hit after the last insertion or hit of an entry it leaves in
\* the cache, and a hit of get leaves its entry last in the Map with one
\* more access counted.
C22_EvictsLeastRecentlyUsed ==
  /\ lru.op = "set" =>
       \A e \in lru.evicted : \A q \in lru.kept : lru.was[e] < lru.was[q]
  /\ (lru.op = "get" /\ lru.hit) =>
       /\ cache.map[Len(cache.map)].path = lru.path
       /\ cache.map[Len(cache.map)].accessCount >= 2

\* The path is cached and the time followed goes beyond its entry's TTL.
Expirable(p) ==
  /\ p \in CachedPaths(cache.map)
  /\ Lookup(cache.map, p).timestamp + cache.ttl < MaxClock

\* C25: right after the timer fired no entry is older than the TTL, and,
\* as the timer keeps firing, an entry that the time followed can see
\* expire is removed unless it is inserted or hit again.
C25_TimerExpiresEntries ==
  /\ [](cacheOp.op = "timer" =>
          \A i \in DOMAIN cache.map : now - cache.map[i].timestamp <= cache.ttl)
  /\ \A p \in Paths : Expirable(p) ~> ~Expirable(p)

\* The timer fired after time had passed and removed an entry.
C25_Witness ==
  /\ cacheOp.op = "timer"
  /\ cacheOp.removed
  /\ cacheOp.prev.op = "tick"
  /\ now > cache.ttl

\* The score of the entry as the claim has it, times ten:
\* 0.7 x accessCount - 0.3 x age.
ScoreLessAge(e, t) == e.accessCount * 7 - (t - e.timestamp) * 3

\* C23: an emergency eviction of the cache as it stands leaves at most half
\* the capacity (rounded down), removes nothing from a cache that holds no
\* more than that, and removes only entries whose score 0.7 x accessCount -
\* 0.3 x age is at most that of every entry it leaves: of two entries with
\* equal access counts it never removes the younger and leaves the older.
C23_EmergencyEvictsLowestScore ==
  LET after == EmergencyCleanup(cache, now)
      targetSize == cache.maxSize \div 2
      removed == {e \in Entries(cache.map) : e.path \notin CachedPaths(after.map)}
      left == Entries(after.map)
  IN /\ Len(cache.map) <= targetSize => after = cache
     /\ Len(cache.map) > targetSize => Len(after.map) = targetSize
     /\ left \subseteq Entries(cache.map)
     /\ \A r \in removed : \A k \in left :
          /\ ScoreLessAge(r, now) <= ScoreLessAge(k, now)
          /\ r.accessCount = k.accessCount => r.timestamp <= k.timestamp

\* C24: a set of a content of more than half of MAX_FILE_SIZE, called while
\* memory pressure is above 0.6 and not above the emergency threshold,
\* leaves the cache as it found it, whatever the cache holds.
C24_RefusedSetLeavesCache ==
  \A p \in Paths : \A z \in Sizes :
    /\ FileByteLength("LARGE") * 2 > MAX_FILE_SIZE
    /\ CacheSet(cache, p, "LARGE", z, now, "raised") = cache

\* C26: a tick of the timer replaces FILE_CONFIG only if more than 30
\* seconds have passed since the evaluation before it and the memory
\* pressure differs by more than 10 percentage points from the pressure at
\* that evaluation.
C26_ReplacedOnlyOnSignificantChange ==
  (config.op = "timer" /\ config.replaced) =>
    /\ config.elapsed > MEMORY_CHECK_INTERVAL
    /\ 10 * Distance(config.free, config.freeBefore) > TotalMemory

\* C27: a get of a cached entry of the size asked for hits exactly when the
\* entry's age is within the CACHE_TTL of the configuration now applied,
\* and the cache never holds more entries than its CACHE_SIZE.
C27_CacheFollowsAppliedConfig ==
  /\ config.loaded => Len(cache.map) <= config.FILE_CONFIG.CACHE_SIZE
  /\ config.op = "get" => (config.hit <=> config.age <= config.FILE_CONFIG.CACHE_TTL)

\* C28: a read that succeeds returns the content the file has on disk at
\* the time of the call, also when another process has replaced the
\* content by one of the same byte length since it was cached.
C28_ReadReturnsDiskContent ==
  (fileOp.op = "read" /\ fileOp.result.success)
    => fileOp.result.content = disk[fileOp.path].content

\* Some guard tripped: memory pressure was above the threshold with one of
\* the first n chunks, or these chunks came to more than 2 * MAX_FILE_SIZE.
Tripped(n) ==
  \E k \in 1..n :
    \/ reading.seen[k] = "high"
    \/ TotalLength(SubSeq(reading.chunks, 1, k)) > MAX_FILE_SIZE * 2

\* C29: a streamed read succeeds only if no guard tripped with any chunk,
\* and then its content is the chunks in the order they arrived; once a
\* guard has tripped the read has failed with a 'read' failure; and a
\* promise that is settled stays as it is, whatever event comes later.
C29_StreamSettlesOnce ==
  /\ [](/\ reading.promise.settled = "resolved" =>
             /\ ~Tripped(Len(reading.chunks))
             /\ reading.promise.value = reading.chunks
             /\ reading.phase = "ended"
        /\ Tripped(Len(reading.chunks)) => reading.promise = Promise("rejected", "read")
        /\ reading.promise.settled = "rejected" => reading.promise.value = "read")
  /\ [][reading.promise.settled # "pending" => reading'.promise = reading.promise]_vars

\* A guard tripped with the second chunk, and the end of the stream came
\* after the read had failed.
C29_Witness ==
  /\ reading.promise = Promise("rejected", "read")
  /\ Len(reading.chunks) = 2
  /\ ~Tripped(1)
  /\ Tripped(2)
  /\ reading.phase = "ended"
  /\ reading.settles = 2

\* C30: once a callback of the visitor has returned false, the traversal
\* calls no callback of the visitor again.
C30_FalseStopsTheWalk ==
  \A i \in DOMAIN walk.events : \A j \in DOMAIN walk.events :
    (i < j /\ walk.events[i].what = "returned false")
      => walk.events[j].what \notin {"visitFile", "visitDirectory"}

RECURSIVE SumOfByteLengths(_)
\* The byte lengths of the contents the Map holds, added up.
SumOfByteLengths(c) ==
  IF c = <<>> THEN 0 ELSE FileByteLength(Head(c).content) + SumOfByteLengths(Tail(c))

\* C39: whatever calls and evictions went before, totalMemoryUsage is the
\* sum of the byte lengths of the contents now cached, and is not negative;
\* a set of a path that is already cached keeps it so.
C39_UsageIsSumOfCachedContents ==
  /\ cache.usage = SumOfByteLengths(cache.map)
  /\ cache.usage >= 0

\* Some name on the path starts with a dot.
HasDotName(p) == \E i \in DOMAIN p : Chars(p[i])[1] = "."

\* The paths a traversal called this callback for.
CalledFor(what) ==
  {walk.events[i].path : i \in {j \in DOMAIN walk.events : walk.events[j].what = what}}

\* C31: with includeHidden false a traversal calls no callback for, and
\* reads no directory at or under, an entry whose name starts with a dot;
\* with an extension filter it calls visitFile only for files whose
\* extension is in the filter; and a traversal that nothing stops or fails
\* visits every directory within its depth that is not hidden from it, and
\* reads those it may descend into, whatever the filter and their names.
C31_HiddenAndExtensionFilters ==
  walk.op = "traverse" =>
    LET v == walk.visitor
        maxDepth == OrDefault(v.maxDepth, DefaultMaxDepth)
    IN /\ ~v.includeHidden =>
            \A i \in DOMAIN walk.events : ~HasDotName(walk.events[i].path)
       /\ v.fileExtensions # {} =>
            \A p \in CalledFor("visitFile") : ExtName(BaseName(p)) \in v.fileExtensions
       /\ walk.failing = {} =>
            \A d \in tree \cap DirPaths :
              (v.includeHidden \/ ~HasDotName(d)) =>
                /\ Len(d) - 1 <= maxDepth => d \in CalledFor("visitDirectory")
                /\ Len(d) <= maxDepth => d \in CalledFor("readdir")

\* A traversal with an extension filter and without hidden entries went
\* past a hidden directory that holds a file of the extension, visited the
\* directory above it and a file of the extension beside it, and passed
\* over a file of another extension.
C31_Witness ==
  /\ walk.op = "traverse"
  /\ ~walk.visitor.includeHidden
  /\ walk.visitor.fileExtensions = {<<".", "t", "s">>}
  /\ {<<"sub", ".d", "c.ts">>, <<"b.js">>, <<".x.ts">>} \subseteq tree
  /\ <<"sub">> \in CalledFor("visitDirectory")
  /\ <<"sub", "c.ts">> \in CalledFor("visitFile")
  /\ <<"b.js">> \notin CalledFor("visitFile")

\* C32: a pattern search, called directly or by the search_files tool,
\* with or without directories, returns at most max_results results (50
\* when none is given), and the tool's truncated flag is true exactly when
\* it returns max_results of them.
C32_ResultsCappedAndTruncatedFlag ==
  /\ walk.op \in {"search", "tool"} =>
       Len(walk.results) <= OrDefault(walk.visitor.maxResults, DefaultMaxResults)
  /\ walk.op = "tool" /\ walk.success =>
       /\ Len(walk.results) <= walk.max_results
       /\ walk.total_found = Len(walk.results)
       /\ walk.truncated <=> (Len(walk.results) = walk.max_results)

\* The tool, asked for two results with directories, returned a file and
\* a directory and refused a further entry.
C32_Witness ==
  /\ walk.op = "tool"
  /\ walk.success
  /\ walk.max_results = 2
  /\ walk.visitor.includeDirectories
  /\ walk.truncated
  /\ Len(walk.results) = 2
  /\ \E i \in 1..2 : walk.results[i] \in DirPaths
  /\ \E i \in 1..2 : walk.results[i] \in FilePaths
  /\ \E i \in DOMAIN walk.events : walk.events[i].what = "returned false"

\* C33: a result of a fuzzy search has match_type 'exact' exactly when the
\* query equals its filename or its relative path, up to case unless the
\* search is case sensitive.
C33_ExactIffEqualsNameOrPath ==
  (scored.op = "item" /\ scored.pushed) =>
    (scored.match_type = "exact" <=>
       \/ Compared(scored.query, scored.caseSensitive)
            = Compared(scored.filename, scored.caseSensitive)
       \/ Compared(scored.query, scored.caseSensitive)
            = Compared(scored.relative_path, scored.caseSensitive))

\* The truncation notices yielded while the response of a round was streamed.
NoticesOf(rnd) ==
  {i \in DOMAIN events : events[i].rnd = rnd /\ events[i].delta = TruncationNotice}

\* C34: while a response is streamed the truncation notice is yielded at
\* most once, however many deltas arrive after the cap has been reached.
C34_OneTruncationNotice ==
  \A rnd \in 0..MaxRounds : Cardinality(NoticesOf(rnd)) <= 1

\* contentSize is the byte length of the accumulated text, within the cap.
SizeTracksText ==
  /\ contentSize = ByteLength(accumulatedContent)
  /\ contentSize <= MAX_ACCUMULATED_SIZE

\* After a delta of the response was refused, the accumulated text stays
\* as it is for the rest of the response.
RefusalLatches ==
  (NoticesOf(round) # {} /\ pc = "streaming" /\ pc' = "streaming")
    => accumulatedContent' = accumulatedContent

\* C35: contentSize always equals the UTF-8 byte length of
\* accumulatedContent and is at most 51200, and once a delta of a response
\* has been refused for exceeding the cap the accumulated text does not
\* grow again during that response.
C35_SizeTracksTextAndCapLatches == []SizeTracksText /\ [][RefusalLatches]_vars

\* The tool-call indices the response being streamed has used so far, and
\* the tool-call-started events yielded for it.
IndicesUsed == {fragments[k].index : k \in DOMAIN fragments}
StartedOf(rnd) ==
  {i \in DOMAIN events : events[i].rnd = rnd /\ events[i].type = "tool_call_item"}

\* C37: while a response is streamed and handled, the tool-call-started
\* events yielded for it are as many as the distinct tool-call indices its
\* fragments have used, however the fragments are grouped into chunks.
C37_OneStartedEventPerIndex ==
  (stream /\ pc \in {"streaming", "tools", "done"}) =>
    Cardinality(StartedOf(round)) = Cardinality(IndicesUsed)

\* The ids of the tool calls a tool-call-started event announced, the
\* entries of the execution log for an id, and whether a completion or
\* error event was yielded for it.
AnnouncedIds ==
  {events[i].cid : i \in {j \in DOMAIN events : events[j].type = "tool_call_item"}} \ {0}
ExecutionsOf(id) == {k \in DOMAIN execLog : execLog[k].id = id}
Concluded(id) ==
  \E i \in DOMAIN events : events[i].cid = id /\ events[i].type # "tool_call_item"

\* C38: when the event sequence of a streamed run has ended, every tool
\* call that a tool-call-started event announced was executed exactly once
\* and got its completion or error event, whatever finish reason ended the
\* stream and whichever indices were used.
C38_AnnouncedCallsAreConcluded ==
  (stream /\ pc = "done") =>
    \A id \in AnnouncedIds : Cardinality(ExecutionsOf(id)) = 1 /\ Concluded(id)

RECURSIVE ArgumentsFor(_, _)
\* The arguments of the fragments of an index, joined in arrival order.
ArgumentsFor(index, frags) ==
  IF frags = <<>> THEN <<>>
  ELSE (IF Head(frags).index = index THEN Head(frags).arguments ELSE <<>>)
       \o ArgumentsFor(index, Tail(frags))

\* C36: for every tool-call index of a streamed response, the arguments
\* of the tool call built for it, and handed to executeToolCalls when the
\* response asks for tools, are the arguments of the fragments received
\* for that index joined in arrival order, whatever the interleaving of
\* the indices and the grouping into chunks.
C36_ArgumentsAreFragmentsInOrder ==
  (stream /\ pc \in {"streaming", "tools"}) =>
    \A index \in IndicesUsed :
      /\ toolCalls[index + 1].arguments = ArgumentsFor(index, fragments)
      /\ pc = "tools" => pending[index + 1].arguments = ArgumentsFor(index, fragments)

\* Two tool calls were executed after a response of four fragments, those
\* of one index between those of the other, one call's arguments joined
\* from two different texts.
C36_Witness ==
  /\ stream
  /\ pc = "tools"
  /\ Len(execLog) >= 2
  /\ Len(fragments) >= 4
  /\ fragments[1].index # fragments[2].index
  /\ fragments[3].index # fragments[4].index
  /\ \E index \in IndicesUsed :
       /\ Len(ArgumentsFor(index, fragments)) >= 2
       /\ ArgumentsFor(index, fragments)[1] # ArgumentsFor(index, fragments)[2]
  /\ Len(results) = 2

AdaptInit ==
  /\ lru = NoLru
  /\ config = NotLoaded
  /\ reading = NoReading

Init == AgentInit /\ ToolsInit /\ FileInit /\ HelperInit /\ AdaptInit

\* A turn of the agent.
Next == AgentNextBlocking \/ AgentNextStreaming
Spec == Init /\ [][Next]_vars

\* The tools, invoked on every kind of input.
SpecTools == Init /\ [][ToolsNext]_vars

\* The file access layer.
SpecFile == Init /\ [][FileNext]_vars

\* The cache, called directly.
SpecCache == Init /\ [][CacheNext]_vars

\* Traversals and searches of a directory tree.
SpecWalk == Init /\ [][WalkNext]_vars

\* Listings of the root directory with their concurrent stat calls.
SpecList == Init /\ [][ListNext]_vars

\* Calls of isLikelyBinary.
SpecBinary == Init /\ [][BinaryNext]_vars

\* Calls of calculateFuzzyScore.
SpecFuzzy == Init /\ [][FuzzyNext]_vars

\* The cache from its construction on, with its timer and the clock.
SpecLife == Init /\ [][LifeNext]_vars

\* The timer keeps firing (setInterval) and time keeps passing.
FairLife == SpecLife /\ WF_vars(TimePasses) /\ WF_vars(\E e \in BOOLEAN : TimerFires(e))

\* The module from its load on: the host's memory, the clock, the timer
\* and the cache.
SpecConfig == Init /\ [][ConfigNext]_vars

\* A streamed read, event by event.
SpecStream == Init /\ [][StreamNext]_vars

\* A cache of three entries, set and asked.
SpecLru == Init /\ [][LruNext]_vars

\* The conversation loop and its history.
SpecChat == Init /\ [][ChatNext]_vars

\* The event loop runs every continuation that is ready, and the model
\* answers every request.
SpecFragments == Init /\ [][FragmentsNext]_vars
FairSpec == Spec /\ WF_vars(Next)
====
